---- MODULE Spec2Model ----
\* Tag index and alias engine of mon (bookmark kind): the Badger key-value
\* store, the request handlers that mutate bookmarks, the derived tag-count
\* record, the alias record and its handlers, the list and tag-list reads,
\* and the pure helpers normalizeTags and evaluateTagExpression.
EXTENDS Integers, Sequences, FiniteSets, TLC

VARIABLES
    store,   \* Badger key space: key -> JSON document (or NoDoc when the key is absent)
    now,     \* time.Now().UnixNano() as seen by the next reader
    pc,      \* per handler goroutine: position inside its request
    loc,     \* per handler goroutine: local variables of the running request
    rd,      \* per handler goroutine: keys read by its open update transaction
    stale,   \* per handler goroutine: a key of rd was committed by another txn since it was read
    nreq,    \* number of requests accepted so far
    touched, \* record keys (count record, alias record) an edit or delete request has named as its id
    fn,      \* harness for the pure helpers: inputs and results
    hist     \* per handler goroutine serving a list or tag-list request: the states the store has had since the request began

vars == <<store, now, pc, loc, rd, stale, nreq, touched, fn, hist>>

-----------------------------------------------------------------------------
\* Bounds

MaxReq == 2        \* requests accepted in one behaviour of concurrent handlers
MaxSeqReq == 3     \* requests accepted in one behaviour when served one at a time
MaxTagLen == 2     \* length of a tag list sent in a request
MaxNormLen == 3    \* length of a tag list given to normalizeTags in the helper harness
MaxAliasReq == 3   \* alias requests accepted in one behaviour of concurrent alias handlers
MaxScenarioReq == 4   \* requests accepted in one behaviour of the alias scenario
MaxExprToks == 4   \* number of tokens of an expression given to evaluateTagExpression in the harness
MaxListReq == 3    \* requests accepted in one behaviour with list requests, served one at a time
MaxRaceReq == 4    \* requests accepted in one behaviour of the race of the reads with the writes
MaxRebuildReq == 3 \* requests accepted in one behaviour of the race of the rebuild with a mutation
MaxKwWords == 3    \* number of words of a keywords parameter in the harness of the keyword search
MaxAliasToks == 3  \* number of tokens of an expression given to normalizeExpression in the harness

Procs == {"h1", "h2"}          \* concurrently running handler goroutines
Tags == {"x", "y"}             \* tag names used by requests
NormTags == {"a", "b", "c"}    \* tag names used in the helper harness
AliasInputs == Tags \cup {"", " y "}                \* alias strings sent to the alias handlers
Canonicals == Tags \cup {"z", ""}                   \* canonical strings sent to the alias handlers
Types == {"bookmark", "bogus", ""}                  \* type strings sent to the alias handlers
ScenarioTagLists == {<<"ai">>, <<"a.i.">>, <<"ml">>}   \* tag lists of the alias scenario
ExprTags == {"a", "B"}                              \* tag names written in expressions
DottedTags == {"a.i."}                              \* tag names with punctuation written in expressions
ExprTokens == ExprTags \cup {"and", "or", "not", "(", ")"}   \* tokens of expressions
DottedTokens == DottedTags \cup {"and", "not"}      \* tokens of expressions about a dotted tag
EvalTagLists == {<<>>, <<"A">>, <<"a", "b", "a.i.">>}   \* tag lists of the evaluated bookmark
KwWords == {"web", "WEB", "-draft", "-", "-Web"}    \* words of a keywords parameter
KwTitles == {"Web page", "web Draft", "a - b", ""}  \* titles of the searched bookmark
KwTagLists == {<<>>, <<"draft", "x">>}              \* tag lists of the searched bookmark
ReqTitle == "Web"                                   \* title sent by create and edit requests
ReqURL == "m.io"                                    \* url sent by create and edit requests
ListQueries ==                                      \* query parameters of list requests
    [tags : {"", "x", "x,y", ","}, exclude_tags : {"", "y"}, advanced : {"", "not y"},
     keywords : {"", "-x"}]
AliasExprTokens == {"ml", "AI", "and", "not", "(", ")"}   \* tokens of expressions given to normalizeExpression
KwURL == "m.io"                                     \* url of the searched bookmark

-----------------------------------------------------------------------------
\* Keys and documents

CountKey == "tag_counts"
AliasKey == "bookmark_tag_aliases"
LegacyCountKey == "bookmark_tag_counts"

BookmarkID(n) == "bookmark_" \o ToString(n)

Larger(a, b) == IF a > b THEN a ELSE b

MaxClock ==
    Larger(Larger(Larger(Larger(Larger(MaxReq, MaxSeqReq), MaxScenarioReq), MaxListReq), MaxRaceReq),
           MaxRebuildReq)

BookmarkIDs == {BookmarkID(n) : n \in 0..MaxClock}

RecordKeys == {CountKey, AliasKey}

Keys == RecordKeys \cup BookmarkIDs

NoDoc == [kind |-> "none"]
BookmarkDoc(tags) == [kind |-> "bookmark", tags |-> tags]
CountsDoc(m) == [kind |-> "counts", m |-> m]
AliasDoc(m) == [kind |-> "aliases", m |-> m]

EmptyCounts == [t \in {} |-> 0]
EmptyAliases == [t \in {} |-> ""]

Range(s) == {s[i] : i \in DOMAIN s}

SeqsUpTo(S, n) == UNION {[1..k -> S] : k \in 0..n}

ReqTagLists == SeqsUpTo(Tags, MaxTagLen)

\* json.Unmarshal(val, &bookmark): unknown object members are ignored, so a
\* count map or an alias map decodes to a Bookmark without tags (no tag of
\* Tags is named like a Bookmark field).
DecodeBookmark(d) ==
    IF d.kind = "bookmark" THEN [ok |-> TRUE, tags |-> d.tags]
    ELSE [ok |-> TRUE, tags |-> <<>>]

\* json.Unmarshal(val, &tagCounts) into map[string]int: every member must be a number.
DecodeCounts(d) ==
    IF d.kind = "counts" THEN [ok |-> TRUE, m |-> d.m]
    ELSE IF d.kind = "aliases" /\ DOMAIN d.m = {} THEN [ok |-> TRUE, m |-> EmptyCounts]
    ELSE [ok |-> FALSE, m |-> EmptyCounts]

\* json.Unmarshal(val, &aliases) into map[string]string: every member must be a string.
DecodeAliases(d) ==
    IF d.kind = "aliases" THEN [ok |-> TRUE, m |-> d.m]
    ELSE IF d.kind = "counts" /\ DOMAIN d.m = {} THEN [ok |-> TRUE, m |-> EmptyAliases]
    ELSE [ok |-> FALSE, m |-> EmptyAliases]

\* getAliasMap: a missing key is the empty map, an undecodable record an error.
getAliasMap(s) ==
    IF s[AliasKey] = NoDoc THEN [ok |-> TRUE, m |-> EmptyAliases]
    ELSE DecodeAliases(s[AliasKey])

-----------------------------------------------------------------------------
\* normalizeTags

\* aliases[t] of a Go map: the zero value "" when t is no key
Lookup(m, t) == IF t \in DOMAIN m THEN m[t] ELSE ""

\* mutant of Canon: the alias map is followed for two hops
CanonTwoHops(m, t) ==
    LET c == IF Lookup(m, t) = "" THEN t ELSE Lookup(m, t)
    IN IF Lookup(m, c) = "" THEN c ELSE Lookup(m, c)

Canon(m, t) == IF Lookup(m, t) = "" THEN t ELSE Lookup(m, t)

RECURSIVE NormalizeLoop(_, _, _, _)
NormalizeLoop(tags, aliases, i, out) ==
    IF i > Len(tags) THEN out
    ELSE IF tags[i] = "" THEN NormalizeLoop(tags, aliases, i + 1, out)
    ELSE LET canon == Canon(aliases, tags[i])
         IN IF canon \in Range(out)
            THEN NormalizeLoop(tags, aliases, i + 1, out)
            ELSE NormalizeLoop(tags, aliases, i + 1, Append(out, canon))

RECURSIVE NormalizeLoopSeenRaw(_, _, _, _, _)
NormalizeLoopSeenRaw(tags, aliases, i, out, seen) ==
    IF i > Len(tags) THEN out
    ELSE IF tags[i] = "" THEN NormalizeLoopSeenRaw(tags, aliases, i + 1, out, seen)
    ELSE IF tags[i] \in seen
         THEN NormalizeLoopSeenRaw(tags, aliases, i + 1, out, seen)
         ELSE NormalizeLoopSeenRaw(tags, aliases, i + 1,
                                   Append(out, Canon(aliases, tags[i])), seen \cup {tags[i]})

\* mutant of normalizeTags: seen records the tag as given, not its canonical name
normalizeTagsSeenRaw(tags, aliases) ==
    IF Len(tags) = 0 THEN tags ELSE NormalizeLoopSeenRaw(tags, aliases, 1, <<>>, {})

normalizeTags(tags, aliases) ==
    IF Len(tags) = 0 THEN tags ELSE NormalizeLoop(tags, aliases, 1, <<>>)

-----------------------------------------------------------------------------
\* Count map arithmetic of updateTagCounts and rebuildTagCounts

MapRemove(m, t) == [k \in DOMAIN m \ {t} |-> m[k]]

MapPut(m, t, v) == [k \in DOMAIN m \cup {t} |-> IF k = t THEN v ELSE m[k]]

\* mutant of DecTag: the key is deleted only below 1, so a count of 0 is stored
DecTagKeepsZero(m, t) ==
    IF t # "" /\ t \in DOMAIN m
    THEN IF m[t] < 1 THEN MapRemove(m, t) ELSE MapPut(m, t, m[t] - 1)
    ELSE m

DecTag(m, t) ==
    IF t # "" /\ t \in DOMAIN m
    THEN IF m[t] <= 1 THEN MapRemove(m, t) ELSE MapPut(m, t, m[t] - 1)
    ELSE m

IncTag(m, t) ==
    IF t # ""
    THEN MapPut(m, t, (IF t \in DOMAIN m THEN m[t] ELSE 0) + 1)
    ELSE m

RECURSIVE DecTags(_, _)
DecTags(m, tags) ==
    IF tags = <<>> THEN m ELSE DecTags(DecTag(m, Head(tags)), Tail(tags))

RECURSIVE IncTags(_, _)
IncTags(m, tags) ==
    IF tags = <<>> THEN m ELSE IncTags(IncTag(m, Head(tags)), Tail(tags))

applyDelta(m, oldTags, newTags) == IncTags(DecTags(m, oldTags), newTags)

\* keys the rebuild scan treats as bookmarks
IsScanned(k) == k \in BookmarkIDs \cup {AliasKey} /\ k # LegacyCountKey

RECURSIVE ScanKeys(_, _, _)
ScanKeys(s, ks, m) ==
    IF ks = {} THEN m
    ELSE LET k == CHOOSE k \in ks : TRUE
             b == DecodeBookmark(s[k])
         IN ScanKeys(s, ks \ {k}, IF b.ok THEN IncTags(m, b.tags) ELSE m)

rebuildScan(s) ==
    ScanKeys(s, {k \in Keys : s[k] # NoDoc /\ IsScanned(k)}, EmptyCounts)

\* Strings: the helpers of package strings and regexp the evaluator uses

HasPrefix(str, pre) == Len(str) >= Len(pre) /\ SubSeq(str, 1, Len(pre)) = pre

Drop(str, n) == SubSeq(str, n + 1, Len(str))

CharAt(str, i) == SubSeq(str, i, i)

RECURSIVE Contains(_, _)
Contains(str, sub) ==
    IF Len(str) < Len(sub) THEN FALSE
    ELSE IF HasPrefix(str, sub) THEN TRUE
    ELSE Contains(Tail(str), sub)

\* strings.ReplaceAll: the non-overlapping occurrences of old, from the left
RECURSIVE ReplaceAll(_, _, _)
ReplaceAll(str, old, new) ==
    IF Len(str) < Len(old) THEN str
    ELSE IF HasPrefix(str, old) THEN new \o ReplaceAll(Drop(str, Len(old)), old, new)
    ELSE CharAt(str, 1) \o ReplaceAll(Tail(str), old, new)

UpperLetters == "ABCDEFGHIJKLMNOPQRSTUVWXYZ"
LowerLetters == "abcdefghijklmnopqrstuvwxyz"
Digits == "0123456789"

CharsOf(str) == {CharAt(str, i) : i \in 1..Len(str)}

UpperSet == CharsOf(UpperLetters)

LowerOf == [c \in UpperSet |->
               CharAt(LowerLetters, CHOOSE i \in 1..Len(UpperLetters) : CharAt(UpperLetters, i) = c)]

LowerChar(c) == IF c \in UpperSet THEN LowerOf[c] ELSE c

RECURSIVE ToLower(_)
ToLower(str) == IF str = "" THEN str ELSE LowerChar(CharAt(str, 1)) \o ToLower(Tail(str))

\* \w of the regular expressions, and the character class [a-zA-Z0-9_-]
WordChars == CharsOf(UpperLetters) \cup CharsOf(LowerLetters) \cup CharsOf(Digits) \cup {"_"}

IsWordChar(c) == c \in WordChars
IsTagChar(c) == IsWordChar(c) \/ c = "-"

\* \b between positions i - 1 and i of str
IsBoundary(str, i) ==
    (i > 1 /\ IsWordChar(CharAt(str, i - 1))) # (i <= Len(str) /\ IsWordChar(CharAt(str, i)))

\* number of characters of the class [a-zA-Z0-9_-] at the head of str
RECURSIVE TagCharRun(_)
TagCharRun(str) ==
    IF str = "" THEN 0
    ELSE IF IsTagChar(CharAt(str, 1)) THEN 1 + TagCharRun(Tail(str))
    ELSE 0

\* length of the match of \b[a-zA-Z0-9_-]+\b at position i of str, 0 when there is none
WordMatchLen(str, i) ==
    LET run == TagCharRun(Drop(str, i - 1))
        ends == {n \in 1..run : IsBoundary(str, i + n)}
    IN IF ~IsBoundary(str, i) \/ ends = {} THEN 0
       ELSE CHOOSE n \in ends : \A k \in ends : k <= n

\* wordRegex.ReplaceAllStringFunc(str, f) where f maps a word w to Repl[w]
\* for the words of DOMAIN Repl, to dflt otherwise unless w is in Keep
RECURSIVE ReplaceWords(_, _, _, _, _)
ReplaceWords(str, i, Keep, Yes, out) ==
    IF i > Len(str) THEN out
    ELSE LET n == WordMatchLen(str, i)
             w == SubSeq(str, i, i + n - 1)
         IN IF n = 0 THEN ReplaceWords(str, i + 1, Keep, Yes, out \o CharAt(str, i))
            ELSE ReplaceWords(str, i + n, Keep, Yes,
                              out \o (IF ToLower(w) \in Keep THEN w
                                      ELSE IF ToLower(w) \in Yes THEN "true"
                                      ELSE "false"))

\* strings.Split(str, sep) for a separator of one character
RECURSIVE SplitFrom(_, _, _, _)
SplitFrom(str, sep, cur, out) ==
    IF str = "" THEN Append(out, cur)
    ELSE IF CharAt(str, 1) = sep THEN SplitFrom(Tail(str), sep, "", Append(out, cur))
    ELSE SplitFrom(Tail(str), sep, cur \o CharAt(str, 1), out)

Split(str, sep) == SplitFrom(str, sep, "", <<>>)

\* regexp \s+ replaced by one blank (the blank is the only white space of the model)
RECURSIVE CollapseSpaces(_)
CollapseSpaces(str) ==
    IF Len(str) < 2 THEN str
    ELSE IF CharAt(str, 1) = " " /\ CharAt(str, 2) = " " THEN CollapseSpaces(Tail(str))
    ELSE CharAt(str, 1) \o CollapseSpaces(Tail(str))

\* strings.TrimSpace on the strings of the model (the only white space is the blank)
RECURSIVE TrimLeft(_)
TrimLeft(str) ==
    IF str = "" THEN str ELSE IF Head(str) = " " THEN TrimLeft(Tail(str)) ELSE str

RECURSIVE TrimRight(_)
TrimRight(str) ==
    IF str = "" THEN str
    ELSE IF SubSeq(str, Len(str), Len(str)) = " " THEN TrimRight(SubSeq(str, 1, Len(str) - 1))
    ELSE str

TrimSpace(str) == TrimRight(TrimLeft(str))

\* SetAliasesBatch loop: every listed alias other than the canonical points to it
\* mutant of setAliasGroup: an alias equal to the canonical is stored as well
RECURSIVE setAliasGroupKeepsSelf(_, _, _)
setAliasGroupKeepsSelf(m, canonical, aliases) ==
    IF aliases = <<>> THEN m
    ELSE LET a == TrimSpace(Head(aliases))
         IN setAliasGroupKeepsSelf(IF a = "" THEN m ELSE MapPut(m, a, canonical),
                                   canonical, Tail(aliases))

\* mutant of setAliasGroup: an alias that already has a target keeps it
RECURSIVE setAliasGroupFirstWins(_, _, _)
setAliasGroupFirstWins(m, canonical, aliases) ==
    IF aliases = <<>> THEN m
    ELSE LET a == TrimSpace(Head(aliases))
         IN setAliasGroupFirstWins(IF a = "" \/ a = canonical \/ a \in DOMAIN m
                                   THEN m ELSE MapPut(m, a, canonical),
                                   canonical, Tail(aliases))

RECURSIVE setAliasGroup(_, _, _)
setAliasGroup(m, canonical, aliases) ==
    IF aliases = <<>> THEN m
    ELSE LET a == TrimSpace(Head(aliases))
         IN setAliasGroup(IF a = "" \/ a = canonical THEN m ELSE MapPut(m, a, canonical),
                          canonical, Tail(aliases))

\* DeleteAlias without /group: delete(m, alias)
removeAlias(m, alias) == MapRemove(m, alias)

\* mutant of removeGroup: the entry whose key is canonical is deleted
removeGroupByKey(m, canonical) == MapRemove(m, canonical)

\* DeleteAlias with /group: every entry whose value is canonical is deleted
removeGroup(m, canonical) == [k \in {j \in DOMAIN m : m[j] # canonical} |-> m[k]]

\* mutant of aliasKeyForType: an unknown type falls back to the bookmark map
aliasKeyForTypeDefault(t) ==
    IF t \in {"note", "notes"} THEN [ok |-> TRUE, key |-> "note_tag_aliases"]
    ELSE IF t = "youtube" THEN [ok |-> TRUE, key |-> "youtube_tag_aliases"]
    ELSE [ok |-> TRUE, key |-> AliasKey]

\* the storage key of the alias map of a type; the note and youtube maps are
\* outside the key space of this model and no request of the model names them
aliasKeyForType(t) ==
    IF t \in {"bookmark", "bookmarks"} THEN [ok |-> TRUE, key |-> AliasKey]
    ELSE IF t \in {"note", "notes"} THEN [ok |-> TRUE, key |-> "note_tag_aliases"]
    ELSE IF t = "youtube" THEN [ok |-> TRUE, key |-> "youtube_tag_aliases"]
    ELSE [ok |-> FALSE, key |-> ""]

\* getAliasMap(txn, t) of the alias handler
getAliasMapOf(s, t) ==
    LET k == aliasKeyForType(t)
    IN IF ~k.ok THEN [ok |-> FALSE, m |-> EmptyAliases]
       ELSE IF s[k.key] = NoDoc THEN [ok |-> TRUE, m |-> EmptyAliases]
       ELSE DecodeAliases(s[k.key])

-----------------------------------------------------------------------------
\* evaluateTagExpression.  A Go loop whose body leaves the string as it was
\* never ends: the result is then "hang"; otherwise it is "true" or "false".

\* notRegex.ReplaceAllStringFunc: !(true|false)
RECURSIVE ReplaceNot(_)
ReplaceNot(str) ==
    IF str = "" THEN str
    ELSE IF HasPrefix(str, "!true") THEN "false" \o ReplaceNot(Drop(str, 5))
    ELSE IF HasPrefix(str, "!false") THEN "true" \o ReplaceNot(Drop(str, 6))
    ELSE CharAt(str, 1) \o ReplaceNot(Tail(str))

\* the match of (true|false)<op>(true|false) at the head of str: its length and operands
BinaryMatch(str, op) ==
    LET l == IF HasPrefix(str, "true") THEN "true"
             ELSE IF HasPrefix(str, "false") THEN "false" ELSE ""
        rest == Drop(str, Len(l) + Len(op))
        r == IF HasPrefix(rest, "true") THEN "true"
             ELSE IF HasPrefix(rest, "false") THEN "false" ELSE ""
    IN IF l # "" /\ HasPrefix(Drop(str, Len(l)), op) /\ r # ""
       THEN [len |-> Len(l) + Len(op) + Len(r), left |-> l = "true", right |-> r = "true"]
       ELSE [len |-> 0, left |-> FALSE, right |-> FALSE]

\* andRegex.ReplaceAllStringFunc and orRegex.ReplaceAllStringFunc
RECURSIVE ReplaceBinary(_, _)
ReplaceBinary(str, op) ==
    IF str = "" THEN str
    ELSE LET b == BinaryMatch(str, op)
             v == IF op = "&&" THEN b.left /\ b.right ELSE b.left \/ b.right
         IN IF b.len = 0 THEN CharAt(str, 1) \o ReplaceBinary(Tail(str), op)
            ELSE (IF v THEN "true" ELSE "false") \o ReplaceBinary(Drop(str, b.len), op)

RECURSIVE NotLoop(_)
NotLoop(expr) ==
    IF ~Contains(expr, "!") THEN expr
    ELSE IF ReplaceNot(expr) = expr THEN "hang"
    ELSE NotLoop(ReplaceNot(expr))

RECURSIVE BinaryLoop(_, _)
BinaryLoop(expr, op) ==
    IF expr = "hang" \/ ~Contains(expr, op) THEN expr
    ELSE IF ReplaceBinary(expr, op) = expr THEN "hang"
    ELSE BinaryLoop(ReplaceBinary(expr, op), op)

evaluateWithoutParentheses(expr) ==
    LET e == BinaryLoop(BinaryLoop(NotLoop(expr), "&&"), "||")
    IN IF e = "hang" THEN "hang" ELSE IF e = "true" THEN "true" ELSE "false"

\* the range loop over the characters: the first ")" that has a "(" before it,
\* with the last "(" before it; [found |-> FALSE] when the loop ends without a break
RECURSIVE InnermostParens(_, _, _)
InnermostParens(expr, i, start) ==
    IF i > Len(expr) THEN [found |-> FALSE, start |-> 0, end |-> 0]
    ELSE IF CharAt(expr, i) = "(" THEN InnermostParens(expr, i + 1, i)
    ELSE IF CharAt(expr, i) = ")" /\ start # 0 THEN [found |-> TRUE, start |-> start, end |-> i]
    ELSE InnermostParens(expr, i + 1, start)

RECURSIVE ParenLoop(_)
ParenLoop(expr) ==
    IF ~Contains(expr, "(") THEN evaluateWithoutParentheses(expr)
    ELSE LET g == InnermostParens(expr, 1, 0)
             inner == ParenLoop(SubSeq(expr, g.start + 1, g.end - 1))
         IN IF ~g.found THEN "hang"
            ELSE IF inner = "hang" THEN "hang"
            ELSE ParenLoop(SubSeq(expr, 1, g.start - 1) \o inner \o Drop(expr, g.end))

evaluateSimpleBooleanExpression(expr) == ParenLoop(ReplaceAll(expr, " ", ""))

\* evaluateTagExpression replacing the logical operators like tag names
evaluateTagExpressionNoOperators(bookmarkTags, expression) ==
    IF expression = "" THEN "true"
    ELSE LET tagSet == {ToLower(bookmarkTags[i]) : i \in DOMAIN bookmarkTags}
             e1 == ReplaceWords(ToLower(expression), 1, {}, tagSet, "")
         IN evaluateSimpleBooleanExpression(TrimSpace(CollapseSpaces(e1)))

evaluateTagExpression(bookmarkTags, expression) ==
    IF expression = "" THEN "true"
    ELSE LET tagSet == {ToLower(bookmarkTags[i]) : i \in DOMAIN bookmarkTags}
             e1 == ReplaceWords(ToLower(expression), 1, {"and", "or", "not"}, tagSet, "")
             e2 == ReplaceAll(e1, " and ", " && ")
             e3 == ReplaceAll(e2, " or ", " || ")
             e4 == ReplaceAll(e3, " not ", " !")
             e5 == ReplaceAll(e4, "not ", "!")
         IN evaluateSimpleBooleanExpression(TrimSpace(CollapseSpaces(e5)))

-----------------------------------------------------------------------------
\* Store and transactions

EmptyDB == [k \in Keys |-> NoDoc]

\* NewBookmarkHandler: the count record is rebuilt when its key is missing
initializeTagCounts(s) ==
    IF s[CountKey] = NoDoc THEN [s EXCEPT ![CountKey] = CountsDoc(rebuildScan(s))] ELSE s

NoQuery == [tags |-> "", exclude_tags |-> "", advanced |-> "", keywords |-> ""]

IdleLoc == [op |-> "none", id |-> "", tags |-> <<>>, old |-> <<>>, wval |-> NoDoc,
            type |-> "", canonical |-> "", aliases |-> <<>>, alias |-> "", m |-> EmptyAliases,
            resp |-> "none",
            q |-> NoQuery, a |-> [ok |-> TRUE, m |-> EmptyAliases],
            out |-> [hang |-> FALSE, ids |-> {}], counts |-> [ok |-> TRUE, m |-> EmptyCounts]]

FnIdle == [phase |-> "off", x |-> <<>>, m |-> EmptyAliases, out |-> <<>>, out2 |-> <<>>]

AllIdle == \A p \in Procs : pc[p] = "idle"

NoHist == [p \in Procs |-> {}]

\* the store has become s while list or tag-list requests are being served
Observe(s) == [q \in Procs |-> IF hist[q] = {} THEN {} ELSE hist[q] \cup {s}]

\* Badger commit of transaction p writing the keys W: every other open update
\* transaction that has read one of them will fail with ErrConflict.
CommitStale(p, W) ==
    [q \in Procs |-> IF q = p THEN FALSE
                     ELSE IF rd[q] \cap W # {} THEN TRUE ELSE stale[q]]

\* the handler returns: its locals and its transaction are gone
Return(p) ==
    /\ pc' = [pc EXCEPT ![p] = "idle"]
    /\ loc' = [loc EXCEPT ![p] = IdleLoc]
    /\ rd' = [rd EXCEPT ![p] = {}]

\* the handler writes the response r and returns
Reply(p, r) ==
    /\ pc' = [pc EXCEPT ![p] = "idle"]
    /\ loc' = [loc EXCEPT ![p] = [IdleLoc EXCEPT !.resp = r]]
    /\ rd' = [rd EXCEPT ![p] = {}]

Init ==
    /\ store = initializeTagCounts(EmptyDB)
    /\ now = 0
    /\ pc = [p \in Procs |-> "idle"]
    /\ loc = [p \in Procs |-> IdleLoc]
    /\ rd = [p \in Procs |-> {}]
    /\ stale = [p \in Procs |-> FALSE]
    /\ nreq = 0
    /\ touched = {}
    /\ hist = NoHist
    /\ fn = FnIdle

-----------------------------------------------------------------------------
\* updateTagCounts (one update transaction: begin and closure, then commit)

\* the closure of updateTagCounts on the snapshot s: the record it sets, or an error
updateTagCounts(s, oldTags, newTags) ==
    LET d == s[CountKey]
        c == IF d = NoDoc THEN [ok |-> TRUE, m |-> EmptyCounts] ELSE DecodeCounts(d)
    IN [ok |-> c.ok, doc |-> CountsDoc(applyDelta(c.m, oldTags, newTags))]

UpdateBegin(p) ==
    /\ pc[p] = "u_begin"
    /\ LET u == updateTagCounts(store, loc[p].old, loc[p].tags)
       IN IF u.ok
          THEN /\ pc' = [pc EXCEPT ![p] = "u_commit"]
               /\ loc' = [loc EXCEPT ![p].wval = u.doc]
               /\ rd' = [rd EXCEPT ![p] = {CountKey}]
               /\ stale' = [stale EXCEPT ![p] = FALSE]
          ELSE /\ Reply(p, "ok")
               /\ stale' = [stale EXCEPT ![p] = FALSE]
    /\ UNCHANGED <<store, now, nreq, touched, fn, hist>>

\* UpdateCommit surfacing the failed commit of the count record to the caller
UpdateCommitReportsFailure(p) ==
    /\ pc[p] = "u_commit"
    /\ IF stale[p]
       THEN /\ stale' = [stale EXCEPT ![p] = FALSE]
            /\ UNCHANGED store
            /\ Reply(p, "server_error")
       ELSE /\ store' = [store EXCEPT ![CountKey] = loc[p].wval]
            /\ stale' = CommitStale(p, {CountKey})
            /\ Reply(p, "ok")
    /\ UNCHANGED <<now, nreq, touched, fn>>
    /\ hist' = Observe(store')

UpdateCommit(p) ==
    /\ pc[p] = "u_commit"
    /\ IF stale[p]
       THEN /\ stale' = [stale EXCEPT ![p] = FALSE]
            /\ UNCHANGED store
       ELSE /\ store' = [store EXCEPT ![CountKey] = loc[p].wval]
            /\ stale' = CommitStale(p, {CountKey})
    /\ Reply(p, "ok")
    /\ UNCHANGED <<now, nreq, touched, fn>>
    /\ hist' = Observe(store')

-----------------------------------------------------------------------------
\* rebuildTagCounts (one update transaction iterating over the whole key space)

RebuildBegin(p) ==
    /\ pc[p] = "r_begin"
    /\ pc' = [pc EXCEPT ![p] = "r_commit"]
    /\ loc' = [loc EXCEPT ![p].wval = CountsDoc(rebuildScan(store))]
    /\ rd' = [rd EXCEPT ![p] = {k \in Keys : store[k] # NoDoc}]
    /\ stale' = [stale EXCEPT ![p] = FALSE]
    /\ UNCHANGED <<store, now, nreq, touched, fn, hist>>

RebuildCommit(p) ==
    /\ pc[p] = "r_commit"
    /\ IF stale[p]
       THEN /\ stale' = [stale EXCEPT ![p] = FALSE]
            /\ UNCHANGED store
       ELSE /\ store' = [store EXCEPT ![CountKey] = loc[p].wval]
            /\ stale' = CommitStale(p, {CountKey})
    /\ Reply(p, "ok")
    /\ UNCHANGED <<now, nreq, touched, fn>>
    /\ hist' = Observe(store')

-----------------------------------------------------------------------------
\* NewBookmark

\* the tags a create or edit request stores: normalized when the alias map loads
RequestTags(s, T) ==
    LET a == getAliasMap(s) IN IF a.ok THEN normalizeTags(T, a.m) ELSE T

\* POST /api/bookmark/create with the tag list T
NewBookmark(p, T) ==
    /\ pc[p] = "idle"
    /\ loc' = [loc EXCEPT ![p] = [IdleLoc EXCEPT !.op = "create",
                                                 !.tags = RequestTags(store, T)]]
    /\ pc' = [pc EXCEPT ![p] = "c_id"]
    /\ nreq' = nreq + 1
    /\ UNCHANGED <<store, now, rd, stale, touched, fn, hist>>

StartCreate(p) == \E T \in ReqTagLists : NewBookmark(p, T)

CreateGenID(p) ==
    /\ pc[p] = "c_id"
    /\ loc' = [loc EXCEPT ![p].id = BookmarkID(now)]
    /\ pc' = [pc EXCEPT ![p] = "c_write"]
    /\ UNCHANGED <<store, now, rd, stale, nreq, touched, fn, hist>>

CreateWrite(p) ==
    /\ pc[p] = "c_write"
    /\ store' = [store EXCEPT ![loc[p].id] = BookmarkDoc(loc[p].tags)]
    /\ now' = now + 1
    /\ stale' = CommitStale(p, {loc[p].id})
    /\ pc' = [pc EXCEPT ![p] = "u_begin"]
    /\ UNCHANGED <<loc, rd, nreq, touched, fn>>
    /\ hist' = Observe(store')

\* the tag list of a request body: JSON null (or no member) or an array
NullTags == [null |-> TRUE, list |-> <<>>]
TagArray(T) == [null |-> FALSE, list |-> T]

\* NewBookmark, EditBookmark, NewYoutubeVideo, EditYoutubeVideo: the tags stored
\* for the request tags req when getAliasMap gave a
NewBookmarkTags(req, a) ==
    LET t == IF req.null THEN TagArray(<<>>) ELSE req
    IN IF a.ok THEN TagArray(normalizeTags(t.list, a.m)) ELSE t

\* NewNote, EditNote: the tags stored for the request tags req
NewNoteTags(req) == IF req.null THEN TagArray(<<>>) ELSE req

\* the tags a create or edit request of an entity of the kind stores
StoredTagsOf(kind, req, a) ==
    IF kind = "note" THEN NewNoteTags(req) ELSE NewBookmarkTags(req, a)

EntityKinds == {"bookmark", "note", "youtube"}

\* alias maps of the kind of the request
KindAliasMaps == {EmptyAliases, [k \in {"y"} |-> "x"], [k \in {"x"} |-> "y"]}

InitTags ==
    /\ store = initializeTagCounts(EmptyDB)
    /\ now = 0
    /\ pc = [p \in Procs |-> "idle"]
    /\ loc = [p \in Procs |-> IdleLoc]
    /\ rd = [p \in Procs |-> {}]
    /\ stale = [p \in Procs |-> FALSE]
    /\ nreq = 0
    /\ touched = {}
    /\ hist = NoHist
    /\ \E kind \in EntityKinds, req \in {NullTags} \cup {TagArray(T) : T \in ReqTagLists},
          m \in KindAliasMaps :
          fn = [phase |-> "tags", kind |-> kind, req |-> req, m |-> m,
                out |-> NullTags, counts |-> EmptyCounts]

\* the create handler of the kind stores the entity and applies its index delta
StoreTags ==
    /\ fn.phase = "tags"
    /\ LET t == StoredTagsOf(fn.kind, fn.req, [ok |-> TRUE, m |-> fn.m])
       IN fn' = [fn EXCEPT !.phase = "stored", !.out = t,
                           !.counts = applyDelta(EmptyCounts, <<>>, t.list)]
    /\ UNCHANGED <<store, now, pc, loc, rd, stale, nreq, touched, hist>>

NextTags == StoreTags

SpecTags == InitTags /\ [][NextTags]_vars

-----------------------------------------------------------------------------
\* EditBookmark

StartEdit(p) ==
    /\ pc[p] = "idle"
    /\ \E id \in Keys, T \in ReqTagLists :
          /\ loc' = [loc EXCEPT ![p] = [IdleLoc EXCEPT !.op = "edit", !.id = id,
                                                       !.tags = RequestTags(store, T)]]
          /\ touched' = touched \cup ({id} \cap RecordKeys)
    /\ pc' = [pc EXCEPT ![p] = "e_begin"]
    /\ nreq' = nreq + 1
    /\ UNCHANGED <<store, now, rd, stale, fn, hist>>

\* EditBegin taking no old tags from the existing bookmark
EditBeginForgetsOld(p) ==
    /\ pc[p] = "e_begin"
    /\ LET d == store[loc[p].id]
           b == DecodeBookmark(d)
       IN IF d # NoDoc /\ b.ok
          THEN /\ pc' = [pc EXCEPT ![p] = "e_commit"]
               /\ loc' = [loc EXCEPT ![p].wval = BookmarkDoc(loc[p].tags)]
               /\ rd' = [rd EXCEPT ![p] = {loc[p].id}]
          ELSE Reply(p, "not_found")
    /\ stale' = [stale EXCEPT ![p] = FALSE]
    /\ UNCHANGED <<store, now, nreq, touched, fn, hist>>

EditBegin(p) ==
    /\ pc[p] = "e_begin"
    /\ LET d == store[loc[p].id]
           b == DecodeBookmark(d)
       IN IF d # NoDoc /\ b.ok
          THEN /\ pc' = [pc EXCEPT ![p] = "e_commit"]
               /\ loc' = [loc EXCEPT ![p].old = b.tags,
                                     ![p].wval = BookmarkDoc(loc[p].tags)]
               /\ rd' = [rd EXCEPT ![p] = {loc[p].id}]
          ELSE Reply(p, "not_found")
    /\ stale' = [stale EXCEPT ![p] = FALSE]
    /\ UNCHANGED <<store, now, nreq, touched, fn, hist>>

EditCommit(p) ==
    /\ pc[p] = "e_commit"
    /\ IF stale[p]
       THEN /\ stale' = [stale EXCEPT ![p] = FALSE]
            /\ UNCHANGED store
            /\ Reply(p, "server_error")
       ELSE /\ store' = [store EXCEPT ![loc[p].id] = loc[p].wval]
            /\ stale' = CommitStale(p, {loc[p].id})
            /\ pc' = [pc EXCEPT ![p] = "u_begin"]
            /\ loc' = [loc EXCEPT ![p].wval = NoDoc]
            /\ rd' = [rd EXCEPT ![p] = {}]
    /\ UNCHANGED <<now, nreq, touched, fn>>
    /\ hist' = Observe(store')

-----------------------------------------------------------------------------
\* DeleteBookmark

StartDelete(p) ==
    /\ pc[p] = "idle"
    /\ \E id \in Keys :
          LET d == store[id]
              b == DecodeBookmark(d)
          IN /\ IF d # NoDoc /\ b.ok
                THEN /\ loc' = [loc EXCEPT ![p] = [IdleLoc EXCEPT !.op = "delete",
                                                    !.id = id, !.old = b.tags]]
                     /\ pc' = [pc EXCEPT ![p] = "d_write"]
                ELSE /\ loc' = [loc EXCEPT ![p] = [IdleLoc EXCEPT !.resp = "not_found"]]
                     /\ UNCHANGED pc
             /\ touched' = touched \cup ({id} \cap RecordKeys)
    /\ nreq' = nreq + 1
    /\ UNCHANGED <<store, now, rd, stale, fn, hist>>

DeleteWrite(p) ==
    /\ pc[p] = "d_write"
    /\ store' = [store EXCEPT ![loc[p].id] = NoDoc]
    /\ stale' = CommitStale(p, {loc[p].id})
    /\ pc' = [pc EXCEPT ![p] = "u_begin"]
    /\ UNCHANGED <<now, loc, rd, nreq, touched, fn>>
    /\ hist' = Observe(store')

-----------------------------------------------------------------------------
\* ImportAll (one bookmark without id in the file), then the rebuild

\* POST /api/import with a file holding one bookmark with the tag list T
ImportAll(p, T) ==
    /\ pc[p] = "idle"
    /\ store' = [store EXCEPT ![BookmarkID(now)] = BookmarkDoc(T)]
    /\ loc' = [loc EXCEPT ![p] = [IdleLoc EXCEPT !.op = "import",
                                                 !.id = BookmarkID(now), !.tags = T]]
    /\ stale' = CommitStale(p, {BookmarkID(now)})
    /\ now' = now + 1
    /\ pc' = [pc EXCEPT ![p] = "r_begin"]
    /\ nreq' = nreq + 1
    /\ UNCHANGED <<rd, touched, fn>>
    /\ hist' = Observe(store')

StartImport(p) == \E T \in ReqTagLists : ImportAll(p, T)

-----------------------------------------------------------------------------
\* Alias handlers: SetAliasesBatch, DeleteAlias, GetAliases

\* the handler has written its response r and is about to return
Respond(p, l, r) ==
    /\ pc' = [pc EXCEPT ![p] = "a_done"]
    /\ loc' = [loc EXCEPT ![p] = [l EXCEPT !.resp = r]]
    /\ rd' = [rd EXCEPT ![p] = {}]

\* POST /api/tag-aliases/batch {type, canonical, aliases}
SetAliasesBatch(p, t, canonical, aliases) ==
    /\ pc[p] = "idle"
    /\ IF t = "" \/ canonical = "" \/ Len(aliases) = 0
       THEN Respond(p, [IdleLoc EXCEPT !.op = "set", !.type = t], "bad_request")
       ELSE LET a == getAliasMapOf(store, t)
            IN IF a.ok
               THEN /\ loc' = [loc EXCEPT ![p] = [IdleLoc EXCEPT !.op = "set", !.type = t,
                                 !.canonical = canonical, !.aliases = aliases, !.m = a.m,
                                 !.wval = AliasDoc(setAliasGroup(a.m, canonical, aliases))]]
                    /\ pc' = [pc EXCEPT ![p] = "a_commit"]
                    /\ rd' = [rd EXCEPT ![p] = {aliasKeyForType(t).key}]
               ELSE Respond(p, [IdleLoc EXCEPT !.op = "set", !.type = t], "server_error")
    /\ nreq' = nreq + 1
    /\ UNCHANGED <<store, now, stale, touched, fn, hist>>

StartSetAliases(p) ==
    \E t \in Types, canonical \in Canonicals, aliases \in SeqsUpTo(AliasInputs, MaxTagLen) :
        SetAliasesBatch(p, t, canonical, aliases)

\* DELETE /api/tag-aliases?type=..&alias=..
StartRemoveAlias(p) ==
    /\ pc[p] = "idle"
    /\ \E t \in Types, alias \in AliasInputs :
          IF t = ""
          THEN Respond(p, [IdleLoc EXCEPT !.op = "remove", !.type = t], "bad_request")
          ELSE LET a == getAliasMapOf(store, t)
               IN IF a.ok /\ alias # ""
                  THEN /\ loc' = [loc EXCEPT ![p] = [IdleLoc EXCEPT !.op = "remove", !.type = t,
                                    !.alias = alias, !.m = a.m,
                                    !.wval = AliasDoc(removeAlias(a.m, alias))]]
                       /\ pc' = [pc EXCEPT ![p] = "a_commit"]
                       /\ rd' = [rd EXCEPT ![p] = {aliasKeyForType(t).key}]
                  ELSE Respond(p, [IdleLoc EXCEPT !.op = "remove", !.type = t], "bad_request")
    /\ nreq' = nreq + 1
    /\ UNCHANGED <<store, now, stale, touched, fn, hist>>

\* DELETE /api/tag-aliases/group?type=..&canonical=..
StartRemoveGroup(p) ==
    /\ pc[p] = "idle"
    /\ \E t \in Types, canonical \in Canonicals :
          IF t = ""
          THEN Respond(p, [IdleLoc EXCEPT !.op = "group", !.type = t], "bad_request")
          ELSE LET a == getAliasMapOf(store, t)
               IN IF a.ok /\ canonical # ""
                  THEN /\ loc' = [loc EXCEPT ![p] = [IdleLoc EXCEPT !.op = "group", !.type = t,
                                    !.canonical = canonical, !.m = a.m,
                                    !.wval = AliasDoc(removeGroup(a.m, canonical))]]
                       /\ pc' = [pc EXCEPT ![p] = "a_commit"]
                       /\ rd' = [rd EXCEPT ![p] = {aliasKeyForType(t).key}]
                  ELSE Respond(p, [IdleLoc EXCEPT !.op = "group", !.type = t], "bad_request")
    /\ nreq' = nreq + 1
    /\ UNCHANGED <<store, now, stale, touched, fn, hist>>

\* GET /api/tag-aliases?type=..  (one read transaction)
GetAliases(p) ==
    /\ pc[p] = "idle"
    /\ \E t \in Types :
          IF t = "" THEN Respond(p, [IdleLoc EXCEPT !.op = "get", !.type = t], "bad_request")
          ELSE IF getAliasMapOf(store, t).ok THEN Respond(p, [IdleLoc EXCEPT !.op = "get", !.type = t], "ok")
          ELSE Respond(p, [IdleLoc EXCEPT !.op = "get", !.type = t], "server_error")
    /\ nreq' = nreq + 1
    /\ UNCHANGED <<store, now, stale, touched, fn, hist>>

\* AliasCommit without the conflict detection of the transaction: the last writer wins
AliasCommitLastWriterWins(p) ==
    /\ pc[p] = "a_commit"
    /\ store' = [store EXCEPT ![aliasKeyForType(loc[p].type).key] = loc[p].wval]
    /\ stale' = CommitStale(p, {aliasKeyForType(loc[p].type).key})
    /\ Respond(p, [loc[p] EXCEPT !.wval = NoDoc], "ok")
    /\ UNCHANGED <<now, nreq, touched, fn>>
    /\ hist' = Observe(store')

\* commit of the update transaction of SetAliasesBatch or DeleteAlias
AliasCommit(p) ==
    /\ pc[p] = "a_commit"
    /\ IF stale[p]
       THEN /\ stale' = [stale EXCEPT ![p] = FALSE]
            /\ UNCHANGED store
            /\ Respond(p, [loc[p] EXCEPT !.wval = NoDoc],
                       IF loc[p].op = "set" THEN "server_error" ELSE "bad_request")
       ELSE /\ store' = [store EXCEPT ![aliasKeyForType(loc[p].type).key] = loc[p].wval]
            /\ stale' = CommitStale(p, {aliasKeyForType(loc[p].type).key})
            /\ Respond(p, [loc[p] EXCEPT !.wval = NoDoc], "ok")
    /\ UNCHANGED <<now, nreq, touched, fn>>
    /\ hist' = Observe(store')

\* the alias handler returns
AliasReturn(p) ==
    /\ pc[p] = "a_done"
    /\ Return(p)
    /\ UNCHANGED <<store, now, stale, nreq, touched, fn, hist>>

-----------------------------------------------------------------------------
\* Specifications

\* POST /api/bookmark/create or PUT /api/edit-bookmark/{id} without title or
\* without url: the handler answers 400 before it opens a transaction
StartInvalid(p) ==
    /\ pc[p] = "idle"
    /\ \E title \in {"", ReqTitle}, url \in {"", ReqURL} : title = "" \/ url = ""
    /\ loc' = [loc EXCEPT ![p] = [IdleLoc EXCEPT !.resp = "bad_request"]]
    /\ nreq' = nreq + 1
    /\ UNCHANGED <<store, now, pc, rd, stale, touched, fn, hist>>

\* a create, edit or delete request arrives
StartMut(p) ==
    \/ StartCreate(p)
    \/ StartEdit(p)
    \/ StartDelete(p)
    \/ StartInvalid(p)

\* a create, edit or delete request proceeds
StepMut(p) ==
    \/ CreateGenID(p)
    \/ CreateWrite(p)
    \/ EditBegin(p)
    \/ EditCommit(p)
    \/ DeleteWrite(p)
    \/ UpdateBegin(p)
    \/ UpdateCommit(p)

\* an alias request arrives
StartAlias(p) ==
    \/ StartSetAliases(p)
    \/ StartRemoveAlias(p)
    \/ StartRemoveGroup(p)
    \/ GetAliases(p)

\* an alias request proceeds
StepAlias(p) ==
    \/ AliasCommit(p)
    \/ AliasReturn(p)

Start(p) ==
    \/ StartMut(p)
    \/ StartImport(p)
    \/ StartAlias(p)

Step(p) ==
    \/ StepMut(p)
    \/ RebuildBegin(p)
    \/ RebuildCommit(p)
    \/ StepAlias(p)

\* handlers run concurrently, one goroutine per request
Next == \E p \in Procs : (nreq < MaxReq /\ Start(p)) \/ Step(p)

Spec == Init /\ [][Next]_vars

\* requests are served one at a time
NextSeq == \E p \in Procs : (nreq < MaxSeqReq /\ AllIdle /\ Start(p)) \/ Step(p)

SpecSeq == Init /\ [][NextSeq]_vars

\* only create, edit and delete requests, concurrently
NextMut == \E p \in Procs : (nreq < MaxReq /\ StartMut(p)) \/ StepMut(p)

SpecMut == Init /\ [][NextMut]_vars

\* only create, edit and delete requests, one at a time
NextMutSeq == \E p \in Procs : (nreq < MaxSeqReq /\ AllIdle /\ StartMut(p)) \/ StepMut(p)

SpecMutSeq == Init /\ [][NextMutSeq]_vars

\* create, edit, delete and alias requests, one at a time
NextOpsSeq ==
    \E p \in Procs :
        \/ nreq < MaxSeqReq /\ AllIdle /\ (StartMut(p) \/ StartAlias(p))
        \/ StepMut(p)
        \/ StepAlias(p)

SpecOpsSeq == Init /\ [][NextOpsSeq]_vars

\* the alias scenario: bookmarks tagged ai, a.i. and ml are created and the
\* alias a.i. is grouped under ai, in any order, one request at a time
StartScenario(p) ==
    \/ \E T \in ScenarioTagLists : NewBookmark(p, T)
    \/ SetAliasesBatch(p, "bookmark", "ai", <<"a.i.">>)

NextScenario ==
    \E p \in Procs :
        \/ nreq < MaxScenarioReq /\ AllIdle /\ StartScenario(p)
        \/ CreateGenID(p)
        \/ CreateWrite(p)
        \/ UpdateBegin(p)
        \/ UpdateCommit(p)
        \/ AliasCommit(p)
        \/ AliasReturn(p)

SpecScenario == Init /\ [][NextScenario]_vars

\* only alias requests, concurrently
NextAlias == \E p \in Procs : (nreq < MaxAliasReq /\ StartAlias(p)) \/ StepAlias(p)

SpecAlias == Init /\ [][NextAlias]_vars

-----------------------------------------------------------------------------
\* Harness of the pure helper normalizeTags: the inputs are drawn at the start,
\* the helper is applied once and then once more to its own output.

NormInputs == SeqsUpTo(NormTags \cup {""}, MaxNormLen)

\* alias maps SetAliasesBatch can build: no empty key or target, no key mapped to itself
AliasMaps ==
    UNION {{m \in [D -> NormTags] : \A k \in D : m[k] # k} : D \in SUBSET NormTags}

InitNorm ==
    /\ store = initializeTagCounts(EmptyDB)
    /\ now = 0
    /\ pc = [p \in Procs |-> "idle"]
    /\ loc = [p \in Procs |-> IdleLoc]
    /\ rd = [p \in Procs |-> {}]
    /\ stale = [p \in Procs |-> FALSE]
    /\ nreq = 0
    /\ touched = {}
    /\ hist = NoHist
    /\ \E x \in NormInputs, m \in AliasMaps :
          fn = [phase |-> "in", x |-> x, m |-> m, out |-> <<>>, out2 |-> <<>>]

NormalizeOnce ==
    /\ fn.phase = "in"
    /\ fn' = [fn EXCEPT !.phase = "once", !.out = normalizeTags(fn.x, fn.m)]
    /\ UNCHANGED <<store, now, pc, loc, rd, stale, nreq, touched, hist>>

NormalizeTwice ==
    /\ fn.phase = "once"
    /\ fn' = [fn EXCEPT !.phase = "twice", !.out2 = normalizeTags(fn.out, fn.m)]
    /\ UNCHANGED <<store, now, pc, loc, rd, stale, nreq, touched, hist>>

NextNorm == NormalizeOnce \/ NormalizeTwice

SpecNorm == InitNorm /\ [][NextNorm]_vars

-----------------------------------------------------------------------------
\* Harness of the pure function evaluateTagExpression: a tag list and an
\* expression are drawn at the start, the expression being a token sequence
\* written out either with blanks between all tokens but not inside the
\* parentheses ("spaced") or with only the blanks needed to separate words ("tight").

IsWordToken(t) == t \notin {"(", ")"}

Blank(style, l, r) ==
    IF IsWordToken(l) /\ IsWordToken(r) THEN " "
    ELSE IF style = "tight" \/ l = "(" \/ r = ")" THEN ""
    ELSE " "

RECURSIVE Render(_, _)
Render(toks, style) ==
    IF Len(toks) = 0 THEN ""
    ELSE IF Len(toks) = 1 THEN toks[1]
    ELSE toks[1] \o Blank(style, toks[1], toks[2]) \o Render(Tail(toks), style)

InitEval ==
    /\ store = initializeTagCounts(EmptyDB)
    /\ now = 0
    /\ pc = [p \in Procs |-> "idle"]
    /\ loc = [p \in Procs |-> IdleLoc]
    /\ rd = [p \in Procs |-> {}]
    /\ stale = [p \in Procs |-> FALSE]
    /\ nreq = 0
    /\ touched = {}
    /\ hist = NoHist
    /\ \E tags \in EvalTagLists,
          toks \in SeqsUpTo(ExprTokens, MaxExprToks) \cup SeqsUpTo(DottedTokens, MaxExprToks),
          style \in {"spaced", "tight"} :
          fn = [phase |-> "expr", tags |-> tags, toks |-> toks,
                expression |-> Render(toks, style), result |-> "none"]

Evaluate ==
    /\ fn.phase = "expr"
    /\ fn' = [fn EXCEPT !.phase = "evaluated",
                        !.result = evaluateTagExpression(fn.tags, fn.expression)]
    /\ UNCHANGED <<store, now, pc, loc, rd, stale, nreq, touched, hist>>

NextEval == Evaluate

SpecEval == InitEval /\ [][NextEval]_vars

\* the words evaluateTagExpression keeps or produces, used as tag names
ReservedNames == {"and", "or", "not", "true", "false"}

InitName ==
    /\ store = initializeTagCounts(EmptyDB)
    /\ now = 0
    /\ pc = [p \in Procs |-> "idle"]
    /\ loc = [p \in Procs |-> IdleLoc]
    /\ rd = [p \in Procs |-> {}]
    /\ stale = [p \in Procs |-> FALSE]
    /\ nreq = 0
    /\ touched = {}
    /\ hist = NoHist
    /\ \E name \in ReservedNames, tags \in SeqsUpTo(ReservedNames \cup {"x"}, MaxTagLen) :
          fn = [phase |-> "name", tags |-> tags, expression |-> name, result |-> "none"]

\* the expression that is the one tag name is evaluated for a bookmark
EvaluateName ==
    /\ fn.phase = "name"
    /\ fn' = [fn EXCEPT !.phase = "evaluated",
                        !.result = evaluateTagExpression(fn.tags, fn.expression)]
    /\ UNCHANGED <<store, now, pc, loc, rd, stale, nreq, touched, hist>>

NextName == EvaluateName

SpecName == InitName /\ [][NextName]_vars

-----------------------------------------------------------------------------
\* GetBookmarkTags on one snapshot: the persisted counts folded through the alias map

RECURSIVE SumCounts(_, _)
SumCounts(m, ts) ==
    IF ts = {} THEN 0
    ELSE LET t == CHOOSE t \in ts : TRUE IN m[t] + SumCounts(m, ts \ {t})

\* mutant of MergeCounts: the count of the last tag folded onto a canonical replaces the sum
MergeCountsNoSum(m, aliasMap) ==
    [c \in {Canon(aliasMap, t) : t \in DOMAIN m} |->
        m[CHOOSE t \in DOMAIN m : Canon(aliasMap, t) = c]]

MergeCounts(m, aliasMap) ==
    [c \in {Canon(aliasMap, t) : t \in DOMAIN m} |->
        SumCounts(m, {t \in DOMAIN m : Canon(aliasMap, t) = c})]

\* mutant of GetBookmarkTags: the persisted counts are reported as stored
GetBookmarkTagsRaw(s) ==
    LET d == s[CountKey]
        c == DecodeCounts(d)
    IN IF d = NoDoc THEN [ok |-> TRUE, m |-> EmptyCounts]
       ELSE IF ~c.ok THEN [ok |-> FALSE, m |-> EmptyCounts]
       ELSE [ok |-> TRUE, m |-> c.m]

GetBookmarkTags(s) ==
    LET a == getAliasMap(s)
        aliasMap == IF a.ok THEN a.m ELSE EmptyAliases
        d == s[CountKey]
        c == DecodeCounts(d)
    IN IF d = NoDoc THEN [ok |-> TRUE, m |-> EmptyCounts]
       ELSE IF ~c.ok THEN [ok |-> FALSE, m |-> EmptyCounts]
       ELSE [ok |-> TRUE,
             m |-> IF DOMAIN aliasMap # {} THEN MergeCounts(c.m, aliasMap) ELSE c.m]

-----------------------------------------------------------------------------
\* GetBookmarks: the tag filter

\* wordRegex.ReplaceAllStringFunc of normalizeExpression
RECURSIVE ReplaceAliasWords(_, _, _, _)
ReplaceAliasWords(str, i, aliases, out) ==
    IF i > Len(str) THEN out
    ELSE LET n == WordMatchLen(str, i)
             w == SubSeq(str, i, i + n - 1)
         IN IF n = 0 THEN ReplaceAliasWords(str, i + 1, aliases, out \o CharAt(str, i))
            ELSE ReplaceAliasWords(str, i + n, aliases,
                                   out \o (IF Lookup(aliases, w) # "" THEN aliases[w] ELSE w))

normalizeExpression(expr, aliases) ==
    IF TrimSpace(expr) = "" \/ DOMAIN aliases = {} THEN expr
    ELSE ReplaceAliasWords(expr, 1, aliases, "")

\* alias maps given to normalizeExpression: none, a tag alias, an alias named like a keyword
ExprAliasMaps ==
    {EmptyAliases, [k \in {"ml"} |-> "deep"], [k \in {"ml", "and"} |-> "deep"]}

InitAliasExpr ==
    /\ store = initializeTagCounts(EmptyDB)
    /\ now = 0
    /\ pc = [p \in Procs |-> "idle"]
    /\ loc = [p \in Procs |-> IdleLoc]
    /\ rd = [p \in Procs |-> {}]
    /\ stale = [p \in Procs |-> FALSE]
    /\ nreq = 0
    /\ touched = {}
    /\ hist = NoHist
    /\ \E toks \in SeqsUpTo(AliasExprTokens, MaxAliasToks), style \in {"spaced", "tight"},
          m \in ExprAliasMaps :
          fn = [phase |-> "alias_expr", toks |-> toks, style |-> style, m |-> m,
                expression |-> Render(toks, style), out |-> ""]

NormalizeExpression ==
    /\ fn.phase = "alias_expr"
    /\ fn' = [fn EXCEPT !.phase = "normalized",
                        !.out = normalizeExpression(fn.expression, fn.m)]
    /\ UNCHANGED <<store, now, pc, loc, rd, stale, nreq, touched, hist>>

NextAliasExpr == NormalizeExpression

SpecAliasExpr == InitAliasExpr /\ [][NextAliasExpr]_vars

\* the comma-separated tags of a query parameter, trimmed, the empty ones dropped
RECURSIVE TrimmedNonEmpty(_)
TrimmedNonEmpty(parts) ==
    IF parts = <<>> THEN <<>>
    ELSE IF TrimSpace(Head(parts)) = "" THEN TrimmedNonEmpty(Tail(parts))
    ELSE <<TrimSpace(Head(parts))>> \o TrimmedNonEmpty(Tail(parts))

QueryTagList(q) == IF q = "" THEN <<>> ELSE TrimmedNonEmpty(Split(q, ","))

\* mutant of HasAnyTag: every tag of the filter is required
HasAllTags(tags, filter) == Range(filter) \subseteq Range(tags)

HasAnyTag(tags, filter) == Range(tags) \cap Range(filter) # {}

\* mutant of TagFilter: the exclude tags are applied in the include mode as well
TagFilterExcludeAlways(tags, advancedExpression, filterTags, excludeTags) ==
    IF advancedExpression # "" THEN evaluateTagExpression(tags, advancedExpression)
    ELSE IF Len(filterTags) > 0
         THEN (IF HasAnyTag(tags, filterTags) /\ ~HasAnyTag(tags, excludeTags) THEN "true" ELSE "false")
    ELSE IF Len(excludeTags) > 0 THEN (IF HasAnyTag(tags, excludeTags) THEN "false" ELSE "true")
    ELSE "true"

\* the tag filter of the active mode on the tags of one bookmark
TagFilter(tags, advancedExpression, filterTags, excludeTags) ==
    IF advancedExpression # "" THEN evaluateTagExpression(tags, advancedExpression)
    ELSE IF Len(filterTags) > 0 THEN (IF HasAnyTag(tags, filterTags) THEN "true" ELSE "false")
    ELSE IF Len(excludeTags) > 0 THEN (IF HasAnyTag(tags, excludeTags) THEN "false" ELSE "true")
    ELSE "true"

-----------------------------------------------------------------------------
\* Keyword search of GetBookmarks

\* strings.Fields on the strings of the model (the only white space is the blank)
RECURSIVE NonEmptyParts(_)
NonEmptyParts(parts) ==
    IF parts = <<>> THEN <<>>
    ELSE IF Head(parts) = "" THEN NonEmptyParts(Tail(parts))
    ELSE <<Head(parts)>> \o NonEmptyParts(Tail(parts))

Fields(str) == NonEmptyParts(Split(str, " "))

\* strings.Join
RECURSIVE Join(_, _)
Join(parts, sep) ==
    IF parts = <<>> THEN ""
    ELSE IF Len(parts) = 1 THEN parts[1]
    ELSE parts[1] \o sep \o Join(Tail(parts), sep)

\* a keyword with the prefix "-" and more than one character is an exclude word
IsExcludeWord(word) == HasPrefix(word, "-") /\ Len(word) > 1

\* mutant of KeywordMatch: one include word found in the text is enough
KeywordMatchAnyInclude(keywords, title, url, tags) ==
    LET keywordWords == Fields(ToLower(keywords))
        searchableText == ToLower(title \o " " \o url \o " " \o Join(tags, " "))
        excludeWords == {Drop(keywordWords[i], 1) :
                            i \in {j \in DOMAIN keywordWords : IsExcludeWord(keywordWords[j])}}
        includeWords == {keywordWords[i] :
                            i \in {j \in DOMAIN keywordWords : ~IsExcludeWord(keywordWords[j])}}
    IN \/ keywords = ""
       \/ Len(keywordWords) = 0
       \/ /\ \A w \in excludeWords : ~Contains(searchableText, w)
          /\ includeWords # {} => \E w \in includeWords : Contains(searchableText, w)

\* the keyword search on one bookmark with the trimmed query parameter keywords
KeywordMatch(keywords, title, url, tags) ==
    LET keywordWords == Fields(ToLower(keywords))
        searchableText == ToLower(title \o " " \o url \o " " \o Join(tags, " "))
        excludeWords == {Drop(keywordWords[i], 1) :
                            i \in {j \in DOMAIN keywordWords : IsExcludeWord(keywordWords[j])}}
        includeWords == {keywordWords[i] :
                            i \in {j \in DOMAIN keywordWords : ~IsExcludeWord(keywordWords[j])}}
    IN \/ keywords = ""
       \/ Len(keywordWords) = 0
       \/ /\ \A w \in excludeWords : ~Contains(searchableText, w)
          /\ \A w \in includeWords : Contains(searchableText, w)

\* the Title and URL members of the record d decoded as a Bookmark
TitleOf(d) == IF d.kind = "bookmark" THEN ReqTitle ELSE ""
URLOf(d) == IF d.kind = "bookmark" THEN ReqURL ELSE ""

-----------------------------------------------------------------------------
\* GetBookmarks and GetBookmarkTags: two read transactions each, the alias
\* map in the first, the bookmarks or the count record in the second

\* mutant of ScanBookmarks: no keyword search when an advanced expression is given
ScanBookmarksNoKeywordsInAdvanced(a, s, q) ==
    LET norm(T) == IF Len(T) > 0 /\ a.ok THEN normalizeTags(T, a.m) ELSE T
        filterTags == norm(QueryTagList(q.tags))
        excludeTags == norm(QueryTagList(q.exclude_tags))
        advanced == TrimSpace(q.advanced)
        expr == IF advanced # "" /\ a.ok THEN normalizeExpression(advanced, a.m) ELSE advanced
        keywords == TrimSpace(q.keywords)
        scanned == {k \in Keys : s[k] # NoDoc /\ Len(k) >= 9 /\ SubSeq(k, 1, 9) = "bookmark_"}
        tagsOf(k) == norm(DecodeBookmark(s[k]).tags)
        pass(k) == TagFilter(tagsOf(k), expr, filterTags, excludeTags)
    IN [hang |-> \E k \in scanned : pass(k) = "hang",
        ids |-> {k \in scanned : /\ pass(k) = "true"
                                 /\ \/ expr # ""
                                    \/ KeywordMatch(keywords, TitleOf(s[k]), URLOf(s[k]), tagsOf(k))}]

\* the second read transaction of GetBookmarks on the snapshot s, a being the
\* alias map as loaded before: the keys of the records it appends to the
\* response, or the request never returns (hang)
ScanBookmarks(a, s, q) ==
    LET norm(T) == IF Len(T) > 0 /\ a.ok THEN normalizeTags(T, a.m) ELSE T
        filterTags == norm(QueryTagList(q.tags))
        excludeTags == norm(QueryTagList(q.exclude_tags))
        advanced == TrimSpace(q.advanced)
        expr == IF advanced # "" /\ a.ok THEN normalizeExpression(advanced, a.m) ELSE advanced
        keywords == TrimSpace(q.keywords)
        scanned == {k \in Keys : s[k] # NoDoc /\ Len(k) >= 9 /\ SubSeq(k, 1, 9) = "bookmark_"}
        tagsOf(k) == norm(DecodeBookmark(s[k]).tags)
        pass(k) == TagFilter(tagsOf(k), expr, filterTags, excludeTags)
    IN [hang |-> \E k \in scanned : pass(k) = "hang",
        ids |-> {k \in scanned : /\ pass(k) = "true"
                                 /\ KeywordMatch(keywords, TitleOf(s[k]), URLOf(s[k]), tagsOf(k))}]

\* GetBookmarks: the decision of the tag filter for a bookmark storing the tags
\* tags, under the query q and the alias map load a
GetBookmarksFilter(a, tags, q) ==
    LET norm(T) == IF Len(T) > 0 /\ a.ok THEN normalizeTags(T, a.m) ELSE T
        advanced == TrimSpace(q.advanced)
        expr == IF advanced # "" /\ a.ok THEN normalizeExpression(advanced, a.m) ELSE advanced
    IN TagFilter(norm(tags), expr, norm(QueryTagList(q.tags)), norm(QueryTagList(q.exclude_tags)))

\* GetYoutubeVideos: the same statements as GetBookmarks, over the alias map of the videos
GetYoutubeVideosFilter(a, tags, q) == GetBookmarksFilter(a, tags, q)

\* GetNotes: no alias map is loaded; evaluateNoteTagExpression is a copy of evaluateTagExpression
GetNotesFilter(tags, q) ==
    TagFilter(tags, TrimSpace(q.advanced), QueryTagList(q.tags), QueryTagList(q.exclude_tags))

InitFilter ==
    /\ store = initializeTagCounts(EmptyDB)
    /\ now = 0
    /\ pc = [p \in Procs |-> "idle"]
    /\ loc = [p \in Procs |-> IdleLoc]
    /\ rd = [p \in Procs |-> {}]
    /\ stale = [p \in Procs |-> FALSE]
    /\ nreq = 0
    /\ touched = {}
    /\ hist = NoHist
    /\ \E tags \in ReqTagLists, m \in KindAliasMaps, q \in ListQueries :
          fn = [phase |-> "filter", tags |-> tags, m |-> m, q |-> q,
                bookmark |-> "none", note |-> "none", youtube |-> "none"]

\* the three list handlers decide about an entity of their kind storing the same tags
Filter ==
    /\ fn.phase = "filter"
    /\ LET a == [ok |-> TRUE, m |-> fn.m]
       IN fn' = [fn EXCEPT !.phase = "filtered",
                           !.bookmark = GetBookmarksFilter(a, fn.tags, fn.q),
                           !.note = GetNotesFilter(fn.tags, fn.q),
                           !.youtube = GetYoutubeVideosFilter(a, fn.tags, fn.q)]
    /\ UNCHANGED <<store, now, pc, loc, rd, stale, nreq, touched, hist>>

NextFilter == Filter

SpecFilter == InitFilter /\ [][NextFilter]_vars

\* GetBookmarks without keywords when nothing is committed between its two read transactions
GetBookmarks(s, queryTags, queryExcludeTags, advanced) ==
    ScanBookmarks(getAliasMap(s), s,
                  [tags |-> queryTags, exclude_tags |-> queryExcludeTags,
                   advanced |-> advanced, keywords |-> ""])

\* tag lists of the two stored bookmarks and the tag asked for
StoredTagLists == {<<>>, <<"x">>, <<"X">>, <<"x", "y">>, <<"a.i.">>}
AskedTags == {"x", "X", "y", "a.i."}

InitAsk ==
    /\ \E T0 \in StoredTagLists, T1 \in StoredTagLists :
          store = initializeTagCounts([EmptyDB EXCEPT ![BookmarkID(0)] = BookmarkDoc(T0),
                                                      ![BookmarkID(1)] = BookmarkDoc(T1)])
    /\ now = 2
    /\ pc = [p \in Procs |-> "idle"]
    /\ loc = [p \in Procs |-> IdleLoc]
    /\ rd = [p \in Procs |-> {}]
    /\ stale = [p \in Procs |-> FALSE]
    /\ nreq = 0
    /\ touched = {}
    /\ hist = NoHist
    /\ \E T \in AskedTags :
          fn = [phase |-> "ask", tag |-> T, byTags |-> {}, byAdvanced |-> {}]

\* GET /api/bookmarks?tags=T and GET /api/bookmarks?advanced=T on the same store
AskBoth ==
    /\ fn.phase = "ask"
    /\ fn' = [fn EXCEPT !.phase = "asked",
                        !.byTags = GetBookmarks(store, fn.tag, "", "").ids,
                        !.byAdvanced = GetBookmarks(store, "", "", fn.tag).ids]
    /\ UNCHANGED <<store, now, pc, loc, rd, stale, nreq, touched, hist>>

NextAsk == AskBoth

SpecAsk == InitAsk /\ [][NextAsk]_vars

\* GET /api/bookmarks with the query q: the alias map is loaded
StartGetBookmarks(p, q) ==
    /\ pc[p] = "idle"
    /\ loc' = [loc EXCEPT ![p] = [IdleLoc EXCEPT !.op = "list", !.q = q,
                                                 !.a = getAliasMap(store)]]
    /\ pc' = [pc EXCEPT ![p] = "l_scan"]
    /\ hist' = [hist EXCEPT ![p] = {store}]
    /\ nreq' = nreq + 1
    /\ UNCHANGED <<store, now, rd, stale, touched, fn>>

\* the bookmarks are read and filtered
GetBookmarksScan(p) ==
    /\ pc[p] = "l_scan"
    /\ LET r == ScanBookmarks(loc[p].a, store, loc[p].q)
       IN /\ loc' = [loc EXCEPT ![p].out = r]
          /\ pc' = [pc EXCEPT ![p] = IF r.hang THEN "l_hang" ELSE "l_done"]
          /\ hist' = [hist EXCEPT ![p] = IF r.hang THEN {} ELSE hist[p]]
    /\ UNCHANGED <<store, now, rd, stale, nreq, touched, fn>>

\* the second read transaction of GetBookmarkTags on the snapshot s
ReadTagCounts(a, s) ==
    LET aliasMap == IF a.ok THEN a.m ELSE EmptyAliases
        d == s[CountKey]
        c == DecodeCounts(d)
    IN IF d = NoDoc THEN [ok |-> TRUE, m |-> EmptyCounts]
       ELSE IF ~c.ok THEN [ok |-> FALSE, m |-> EmptyCounts]
       ELSE [ok |-> TRUE,
             m |-> IF DOMAIN aliasMap # {} THEN MergeCounts(c.m, aliasMap) ELSE c.m]

\* GET /api/bookmark-tags: the alias map is loaded
StartGetBookmarkTags(p) ==
    /\ pc[p] = "idle"
    /\ loc' = [loc EXCEPT ![p] = [IdleLoc EXCEPT !.op = "tags", !.a = getAliasMap(store)]]
    /\ pc' = [pc EXCEPT ![p] = "t_read"]
    /\ hist' = [hist EXCEPT ![p] = {store}]
    /\ nreq' = nreq + 1
    /\ UNCHANGED <<store, now, rd, stale, touched, fn>>

\* the count record is read and merged by alias
GetBookmarkTagsRead(p) ==
    /\ pc[p] = "t_read"
    /\ loc' = [loc EXCEPT ![p].counts = ReadTagCounts(loc[p].a, store)]
    /\ pc' = [pc EXCEPT ![p] = "t_done"]
    /\ UNCHANGED <<store, now, rd, stale, nreq, touched, fn, hist>>

\* the response of GetBookmarks or GetBookmarkTags is written and the handler returns
ReadReturn(p) ==
    /\ pc[p] \in {"l_done", "t_done"}
    /\ Return(p)
    /\ hist' = [hist EXCEPT ![p] = {}]
    /\ UNCHANGED <<store, now, stale, nreq, touched, fn>>

StartList(p) == \E q \in ListQueries : StartGetBookmarks(p, q)

\* a list or tag-list request proceeds
StepRead(p) ==
    \/ GetBookmarksScan(p)
    \/ GetBookmarkTagsRead(p)
    \/ ReadReturn(p)

\* an alias of one tag is set for the bookmarks
StartSetOneAlias(p) ==
    \E canonical \in Tags, alias \in Tags : SetAliasesBatch(p, "bookmark", canonical, <<alias>>)

\* create, delete, alias and list requests, one at a time
NextListSeq ==
    \E p \in Procs :
        \/ /\ nreq < MaxListReq
           /\ AllIdle
           /\ (StartCreate(p) \/ StartDelete(p) \/ StartSetOneAlias(p) \/ StartList(p))
        \/ CreateGenID(p)
        \/ CreateWrite(p)
        \/ DeleteWrite(p)
        \/ UpdateBegin(p)
        \/ UpdateCommit(p)
        \/ AliasCommit(p)
        \/ AliasReturn(p)
        \/ GetBookmarksScan(p)
        \/ ReadReturn(p)

SpecListSeq == Init /\ [][NextListSeq]_vars

\* the race of the reads with the writes: bookmarks tagged y are created, the
\* alias y is grouped under x, and the bookmarks tagged x and the tag counts
\* are listed, by concurrent handlers
StartRace(p) ==
    \/ NewBookmark(p, <<"y">>)
    \/ SetAliasesBatch(p, "bookmark", "x", <<"y">>)
    \/ StartGetBookmarks(p, [NoQuery EXCEPT !.tags = "x"])
    \/ StartGetBookmarkTags(p)

NextRace ==
    \E p \in Procs :
        \/ nreq < MaxRaceReq /\ StartRace(p)
        \/ CreateGenID(p)
        \/ CreateWrite(p)
        \/ UpdateBegin(p)
        \/ UpdateCommit(p)
        \/ AliasCommit(p)
        \/ AliasReturn(p)
        \/ StepRead(p)

SpecRace == Init /\ [][NextRace]_vars

\* the race of the rebuild with a mutation: create and delete requests are
\* served one at a time, and an import arrives only while one of them is
\* between its entity write and its updateTagCounts
InFlight(q) == pc[q] = "u_begin" /\ loc[q].op \in {"create", "edit", "delete"}

NextRebuildRace ==
    \E p \in Procs :
        \/ nreq < MaxRebuildReq /\ AllIdle /\ (NewBookmark(p, <<"x">>) \/ StartDelete(p))
        \/ nreq < MaxRebuildReq /\ (\E q \in Procs : InFlight(q)) /\ ImportAll(p, <<"y">>)
        \/ CreateGenID(p)
        \/ CreateWrite(p)
        \/ DeleteWrite(p)
        \/ UpdateBegin(p)
        \/ UpdateCommit(p)
        \/ RebuildBegin(p)
        \/ RebuildCommit(p)

SpecRebuildRace == Init /\ [][NextRebuildRace]_vars

\* Harness of the keyword search: a keywords parameter (words separated by
\* one or two blanks) and the title and tags of a bookmark are drawn at the
\* start, then the search is applied.
InitKw ==
    /\ store = initializeTagCounts(EmptyDB)
    /\ now = 0
    /\ pc = [p \in Procs |-> "idle"]
    /\ loc = [p \in Procs |-> IdleLoc]
    /\ rd = [p \in Procs |-> {}]
    /\ stale = [p \in Procs |-> FALSE]
    /\ nreq = 0
    /\ touched = {}
    /\ hist = NoHist
    /\ \E words \in SeqsUpTo(KwWords, MaxKwWords), sep \in {" ", "  "},
          title \in KwTitles, tags \in KwTagLists :
          fn = [phase |-> "kw", words |-> words, keywords |-> TrimSpace(Join(words, sep)),
                title |-> title, url |-> KwURL, tags |-> tags, result |-> FALSE]

Match ==
    /\ fn.phase = "kw"
    /\ fn' = [fn EXCEPT !.phase = "matched",
                        !.result = KeywordMatch(fn.keywords, fn.title, fn.url, fn.tags)]
    /\ UNCHANGED <<store, now, pc, loc, rd, stale, nreq, touched, hist>>

NextKw == Match

SpecKw == InitKw /\ [][NextKw]_vars

-----------------------------------------------------------------------------
\* Notions the properties are stated with

\* the records a list request returns as bookmarks: every key with the bookmark prefix
LiveEntities(s) == {k \in BookmarkIDs \cup {AliasKey} : s[k] # NoDoc}

StoredTags(s, k) == Range(DecodeBookmark(s[k]).tags)

\* number of live entities whose stored tag list contains t
Carriers(s, t) == Cardinality({k \in LiveEntities(s) : t \in StoredTags(s, k)})

\* the count map a reader of the record sees: a missing key is the empty map,
\* and so is (with an error) a record that is no count map
PersistedCounts(s) ==
    IF s[CountKey] = NoDoc THEN [ok |-> TRUE, m |-> EmptyCounts] ELSE DecodeCounts(s[CountKey])

\* the persisted count map agrees with the live entities
CountsExact(s) ==
    LET m == PersistedCounts(s).m
    IN \A t \in Tags :
          IF Carriers(s, t) = 0 THEN t \notin DOMAIN m
          ELSE t \in DOMAIN m /\ m[t] = Carriers(s, t)

\* C1: served one at a time, create, edit and delete requests leave the
\* persisted count map equal, per tag, to the number of live entities whose
\* stored tag list contains the tag (no entry when that number is 0).
C1_CountsMatchLive == AllIdle => CountsExact(store)

\* C2: once all concurrent create, edit and delete requests have completed,
\* the persisted count map equals, per tag, the number of live entities
\* carrying the tag (stated for requests whose id names no record key).
C2_CountsMatchLiveConcurrent == (AllIdle /\ touched = {}) => CountsExact(store)

\* C3: when a rebuild commits with no request running beside it, the persisted
\* count map equals the per-tag number of live entities whose tag set contains
\* the tag, whatever the count record held before.
C3_RebuildEqualsScan ==
    [][\A p \in Procs :
          (pc[p] = "r_commit" /\ pc'[p] = "idle" /\ \A q \in Procs \ {p} : pc[q] = "idle")
              => CountsExact(store')]_vars

\* the store after updateTagCounts(oldTags, newTags) ran alone and committed
AfterDelta(s, oldTags, newTags) ==
    LET u == updateTagCounts(s, oldTags, newTags)
    IN IF u.ok THEN [s EXCEPT ![CountKey] = u.doc] ELSE s

\* C4: from every reachable count map, applyDelta([], T) immediately followed
\* by applyDelta(T, []) leaves the persisted count map as it was.
C4_DeltaRoundTrip ==
    \A T \in ReqTagLists :
        PersistedCounts(AfterDelta(AfterDelta(store, <<>>, T), T, <<>>)) = PersistedCounts(store)

\* a count map with a count above 1 and an absent tag has been committed by updateTagCounts
C4_Witness ==
    /\ AllIdle
    /\ nreq > 0
    /\ store[CountKey].kind = "counts"
    /\ \E t \in Tags : t \in DOMAIN store[CountKey].m /\ store[CountKey].m[t] >= 2
    /\ \E t \in Tags : t \notin DOMAIN store[CountKey].m

\* every stored count is positive
CountsPositive ==
    store[CountKey].kind = "counts" => \A t \in DOMAIN store[CountKey].m : store[CountKey].m[t] >= 1

\* C5: every value of the persisted count map is a positive integer, and once
\* the delete of the only entity carrying a tag has completed (nothing else
\* running), listTags has no entry for that tag.
C5_PositiveAndDeletedTagGone ==
    /\ []CountsPositive
    /\ [][\A p \in Procs :
             (/\ loc[p].op = "delete"
              /\ pc[p] # "idle"
              /\ \A q \in Procs : pc'[q] = "idle"
              /\ touched' = {})
                 => \A t \in Range(loc[p].old) :
                       Carriers(store', t) = 0 => t \notin DOMAIN GetBookmarkTags(store').m]_vars

\* C6: a transaction of updateTagCounts or SetAliasesBatch that fails with a
\* write conflict is run again: the handler does not return with the update dropped.
C6_ConflictIsRetried ==
    [][\A p \in Procs :
          (pc[p] \in {"u_commit", "a_commit"} /\ stale[p])
              => pc'[p] \notin {"idle", "a_done"}]_vars

\* C7: at most one rebuild transaction is open at any time.
C7_OneRebuildAtATime == Cardinality({p \in Procs : pc[p] = "r_commit"}) <= 1

\* C8: an updateTagCounts that finds the count key missing works from the map
\* a rebuild derives from the scan of the entities, not from an empty map.
C8_MissingKeyRebuilds ==
    [][\A p \in Procs :
          (pc[p] = "u_begin" /\ store[CountKey] = NoDoc /\ pc'[p] = "u_commit")
              => loc'[p].wval =
                    CountsDoc(applyDelta(rebuildScan(store), loc[p].old, loc[p].tags))]_vars

-----------------------------------------------------------------------------
\* Properties of normalizeTags

\* C9 as stated: applying normalizeTags to its own output changes nothing, for every alias map
C9_Idempotent == fn.phase = "twice" => fn.out2 = fn.out

\* no alias target is itself an alias key
ChainFree(m) == \A k \in DOMAIN m : m[k] \notin DOMAIN m

\* C9: for every tag list and every alias map without chains, applying
\* normalizeTags to its own output changes nothing.
C9_IdempotentChainFree == (fn.phase = "twice" /\ ChainFree(fn.m)) => fn.out2 = fn.out

\* an alias of a chain-free map was replaced and the result normalized again
C9_Witness ==
    /\ fn.phase = "twice"
    /\ ChainFree(fn.m)
    /\ \E i \in DOMAIN fn.x : fn.x[i] \in DOMAIN fn.m
    /\ fn.out # fn.x

\* the immediate target of a tag: one hop through the alias map
Target(m, t) == IF t \in DOMAIN m THEN m[t] ELSE t

FirstIndex(sq, v) == CHOOSE i \in DOMAIN sq : sq[i] = v /\ \A j \in 1..(i - 1) : sq[j] # v

\* r lists the distinct elements of sq in the order of their first occurrence
IsDedupOf(r, sq) ==
    /\ Range(r) = Range(sq)
    /\ \A i, j \in DOMAIN r : i < j => r[i] # r[j] /\ FirstIndex(sq, r[i]) < FirstIndex(sq, r[j])

NonEmptyTag(t) == t # ""

\* C10 as stated: every tag is replaced by its immediate target or kept, then de-duplicated
C10_SingleHopDedup ==
    fn.phase = "once" =>
        /\ IsDedupOf(fn.out, [i \in DOMAIN fn.x |-> Target(fn.m, fn.x[i])])
        /\ Cardinality(Range(fn.out)) <= Cardinality(Range(fn.x))

\* C10: normalizeTags drops the empty tags, replaces each remaining tag that is
\* an alias key by its immediate target only, keeps the others, removes
\* duplicates in first-seen order, and returns no more distinct tags than given.
C10_SingleHopDedupNonEmpty ==
    fn.phase = "once" =>
        LET kept == SelectSeq(fn.x, NonEmptyTag)
        IN /\ IsDedupOf(fn.out, [i \in DOMAIN kept |-> Target(fn.m, kept[i])])
           /\ Cardinality(Range(fn.out)) <= Cardinality(Range(fn.x))

\* a chain A->B, B->C was applied to a list holding A, with a duplicate removed
C10_Witness ==
    /\ fn.phase = "once"
    /\ \E i \in DOMAIN fn.x :
          /\ fn.x[i] \in DOMAIN fn.m
          /\ fn.m[fn.x[i]] \in DOMAIN fn.m
          /\ fn.m[fn.x[i]] \in Range(fn.out)
    /\ Len(fn.out) < Len(SelectSeq(fn.x, NonEmptyTag))

-----------------------------------------------------------------------------
\* Properties of the alias handlers

\* the alias map a reader of the bookmark alias record sees
AliasMapOf(s) == getAliasMap(s).m

\* C11: after any sequence of setAliasGroup, removeAlias and removeGroup
\* requests starting from an empty alias map, no key of the alias map maps to itself.
C11_NoSelfAlias ==
    store[AliasKey].kind = "aliases" =>
        \A k \in DOMAIN store[AliasKey].m : store[AliasKey].m[k] # k

\* a setAliasGroup that listed the canonical itself among the aliases has committed
C11_Witness ==
    \E p \in Procs :
        /\ pc[p] = "a_done"
        /\ loc[p].op = "set"
        /\ loc[p].resp = "ok"
        /\ \E i \in DOMAIN loc[p].aliases : loc[p].aliases[i] = loc[p].canonical
        /\ DOMAIN AliasMapOf(store) # {}

\* handler p commits its alias transaction of kind op in this step
AliasCommitted(p, op) ==
    /\ pc[p] = "a_commit"
    /\ loc[p].op = op
    /\ pc'[p] = "a_done"
    /\ loc'[p].resp = "ok"

\* the alias map after the step is m with the keys of S pointing to v
IsMergeOf(m, S, v) ==
    /\ getAliasMap(store').ok
    /\ DOMAIN AliasMapOf(store') = DOMAIN m \cup S
    /\ \A k \in DOMAIN AliasMapOf(store') :
          AliasMapOf(store')[k] = IF k \in S THEN v ELSE m[k]

C13_RemoveExactly ==
    [][\A p \in Procs :
          /\ AliasCommitted(p, "remove") =>
                /\ getAliasMap(store').ok
                /\ DOMAIN AliasMapOf(store') = DOMAIN AliasMapOf(store) \ {loc[p].alias}
                /\ \A k \in DOMAIN AliasMapOf(store') :
                      AliasMapOf(store')[k] = AliasMapOf(store)[k]
          /\ AliasCommitted(p, "group") =>
                /\ getAliasMap(store').ok
                /\ DOMAIN AliasMapOf(store') =
                      {k \in DOMAIN AliasMapOf(store) : AliasMapOf(store)[k] # loc[p].canonical}
                /\ \A k \in DOMAIN AliasMapOf(store') :
                      /\ AliasMapOf(store')[k] = AliasMapOf(store)[k]
                      /\ AliasMapOf(store')[k] # loc[p].canonical]_vars

\* a committed removeGroup deleted an alias of its canonical and kept an alias of another one
C13_Witness ==
    \E p \in Procs :
        /\ pc[p] = "a_done"
        /\ loc[p].op = "group"
        /\ loc[p].resp = "ok"
        /\ \E k \in DOMAIN loc[p].m : loc[p].m[k] = loc[p].canonical
        /\ DOMAIN AliasMapOf(store) # {}
        /\ DOMAIN AliasMapOf(store) # DOMAIN loc[p].m

\* the type strings aliasKeyForType recognises
KnownTypes == {"bookmark", "bookmarks", "note", "notes", "youtube"}

\* C14: an alias operation (get, setAliasGroup, removeAlias, removeGroup) given
\* a type string that is no recognised kind answers with an error and leaves
\* every persisted record unchanged.
C14_UnknownKindFails ==
    [][\A p \in Procs :
          (/\ pc'[p] # pc[p]
           /\ pc'[p] \in {"a_commit", "a_done"}
           /\ loc'[p].type \notin KnownTypes)
              => /\ store' = store
                 /\ pc'[p] = "a_done"
                 /\ loc'[p].resp \in {"bad_request", "server_error"}]_vars

\* a setAliasGroup for an unknown type was answered while a bookmark and an alias are stored
C14_Witness ==
    \E p \in Procs :
        /\ pc[p] = "a_done"
        /\ loc[p].op = "set"
        /\ loc[p].type = "bogus"
        /\ loc[p].resp = "server_error"
        /\ \E k \in BookmarkIDs : store[k] # NoDoc

\* the persisted counts cm folded through the alias map am: each tag counts
\* for its immediate target, and the counts of one target add up
FoldedCounts(cm, am) ==
    [c \in {Target(am, t) : t \in DOMAIN cm} |->
        Cardinality(UNION {{<<t, i>> : i \in 1..cm[t]} :
                              t \in {u \in DOMAIN cm : Target(am, u) = c}})]

\* handler p takes a step of an alias request
AliasStep(p) ==
    /\ pc'[p] # pc[p]
    /\ pc[p] \in {"a_commit", "a_done"} \/ pc'[p] \in {"a_commit", "a_done"}

NormalizedCarriers(s, t) ==
    Cardinality({k \in LiveEntities(s) :
                    t \in Range(normalizeTags(DecodeBookmark(s[k]).tags, AliasMapOf(s)))})

\* C17: in every quiescent state reached by create, edit, delete and alias
\* requests (none of them naming a record key as its id), every count listTags
\* reports equals the number of live entities whose normalized tag set contains the tag.
C17_ReportedCountsMatchLive ==
    (AllIdle /\ touched = {}) =>
        \A t \in DOMAIN GetBookmarkTags(store).m :
            GetBookmarkTags(store).m[t] = NormalizedCarriers(store, t)

-----------------------------------------------------------------------------
\* Properties of listTags

\* the live bookmarks whose stored tag list is T
StoredAs(T) == {k \in BookmarkIDs : store[k] = BookmarkDoc(T)}

\* the scenario has been played: one bookmark each stored as [ai], [a.i.] and
\* [ml], and the alias a.i. grouped under ai
ScenarioPlayed ==
    /\ AllIdle
    /\ \A T \in ScenarioTagLists : Cardinality(StoredAs(T)) = 1
    /\ \A k \in BookmarkIDs : store[k] # NoDoc => k \in UNION {StoredAs(T) : T \in ScenarioTagLists}
    /\ store[AliasKey] = AliasDoc([t \in {"a.i."} |-> "ai"])

-----------------------------------------------------------------------------
\* Properties of evaluateTagExpression

\* Standard boolean semantics of a token sequence, by recursive descent over
\*   or-expr  ::= and-expr ("or" and-expr)*
\*   and-expr ::= not-expr ("and" not-expr)*
\*   not-expr ::= "not" not-expr | tag | "(" or-expr ")"
\* A result is [ok, val, next]: whether a phrase was read at position i, its
\* value, and the position after it.
Keywords == {"and", "or", "not"}

NoParse == [ok |-> FALSE, val |-> FALSE, next |-> 0]

TagHolds(tags, t) == ToLower(t) \in {ToLower(tags[i]) : i \in DOMAIN tags}

RECURSIVE ParseOr(_, _, _)
RECURSIVE ParseOrRest(_, _, _)
RECURSIVE ParseAnd(_, _, _)
RECURSIVE ParseAndRest(_, _, _)
RECURSIVE ParseNot(_, _, _)

ParseNot(tags, toks, i) ==
    IF i > Len(toks) THEN NoParse
    ELSE IF toks[i] = "not"
         THEN LET r == ParseNot(tags, toks, i + 1)
              IN IF r.ok THEN [r EXCEPT !.val = ~r.val] ELSE NoParse
    ELSE IF toks[i] = "("
         THEN LET r == ParseOr(tags, toks, i + 1)
              IN IF r.ok /\ r.next <= Len(toks) /\ toks[r.next] = ")"
                 THEN [r EXCEPT !.next = r.next + 1] ELSE NoParse
    ELSE IF toks[i] \in Keywords \cup {")"} THEN NoParse
    ELSE [ok |-> TRUE, val |-> TagHolds(tags, toks[i]), next |-> i + 1]

ParseAndRest(tags, toks, l) ==
    IF l.ok /\ l.next <= Len(toks) /\ toks[l.next] = "and"
    THEN LET r == ParseNot(tags, toks, l.next + 1)
         IN IF r.ok THEN ParseAndRest(tags, toks, [r EXCEPT !.val = l.val /\ r.val]) ELSE NoParse
    ELSE l

ParseAnd(tags, toks, i) == ParseAndRest(tags, toks, ParseNot(tags, toks, i))

ParseOrRest(tags, toks, l) ==
    IF l.ok /\ l.next <= Len(toks) /\ toks[l.next] = "or"
    THEN LET r == ParseAnd(tags, toks, l.next + 1)
         IN IF r.ok THEN ParseOrRest(tags, toks, [r EXCEPT !.val = l.val \/ r.val]) ELSE NoParse
    ELSE l

ParseOr(tags, toks, i) == ParseOrRest(tags, toks, ParseAnd(tags, toks, i))

WellFormed(toks) ==
    toks = <<>> \/ LET r == ParseOr(<<>>, toks, 1) IN r.ok /\ r.next = Len(toks) + 1

Meaning(tags, toks) == toks = <<>> \/ ParseOr(tags, toks, 1).val

Bool(b) == IF b THEN "true" ELSE "false"

\* C18: for every tag list and every well-formed expression, evaluate returns
\* the value of the expression under standard boolean semantics (a tag is true
\* iff it is in the tag set, compared case-insensitively; not > and > or;
\* parentheses override); the empty expression is true.
C18_StandardSemantics ==
    (fn.phase = "evaluated" /\ WellFormed(fn.toks)) =>
        fn.result = Bool(Meaning(fn.tags, fn.toks))

\* C19: for every tag list and every tag name A, evaluate(tags, "A and not A") returns false.
C19_Contradiction ==
    (fn.phase = "evaluated" /\ \E A \in ExprTags \cup DottedTags : fn.toks = <<A, "and", "not", A>>) =>
        fn.result = "false"

\* C20: for every tag list and every expression, malformed ones included,
\* evaluate terminates.
C20_Terminates == fn.phase = "evaluated" => fn.result # "hang"

\* C21: for every tag list and every malformed expression (unbalanced
\* parentheses, dangling or doubled operator, missing operand or operator,
\* empty parentheses), evaluate resolves to false: a malformed expression
\* never makes an entity match, that is, evaluate never returns true for it.
C21_MalformedNeverTrue ==
    (fn.phase = "evaluated" /\ ~WellFormed(fn.toks)) => fn.result # "true"

-----------------------------------------------------------------------------
\* Properties of the keyword search

\* the text occurs, whatever the case of its letters, in the searchable text:
\* title, url and tags joined by blanks
OccursInText(text, title, url, tags) ==
    Contains(ToLower(title \o " " \o url \o " " \o Join(tags, " ")), ToLower(text))

IsExclusionTerm(w) == Len(w) > 1 /\ Head(w) = "-"

\* C24: the keyword matcher returns true iff every query word that is not an
\* exclusion term occurs in the searchable text as a case-insensitive
\* substring and no exclusion term's remainder occurs in it, an exclusion
\* term being a word that starts with - and is longer than one character.
C24_KeywordMatcher ==
    fn.phase = "matched" =>
        (fn.result <=>
            \A i \in DOMAIN fn.words :
                IF IsExclusionTerm(fn.words[i])
                THEN ~OccursInText(Tail(fn.words[i]), fn.title, fn.url, fn.tags)
                ELSE OccursInText(fn.words[i], fn.title, fn.url, fn.tags))

\* the query -draft web has rejected a bookmark whose text has web and draft
C24_Witness ==
    /\ fn.phase = "matched"
    /\ fn.words = <<"-draft", "web">>
    /\ fn.title = "Web page"
    /\ fn.tags = <<"draft", "x">>
    /\ fn.result = FALSE

-----------------------------------------------------------------------------
\* Properties of the list request

\* the entities that were created and not deleted
CreatedEntities(s) == {k \in BookmarkIDs : s[k] # NoDoc}

\* handler p has computed the response of a list request
Listed(p) == pc[p] = "l_done"

\* the alias-normalized set of a tag list
NormSet(m, T) == {Target(m, t) : t \in Range(T) \ {""}}

\* C22 as stated: the tag-filter modes of a list request are mutually
\* exclusive with a fixed priority: when the parameter advanced is non-empty
\* only it decides and tags and exclude_tags are ignored; otherwise when the
\* parameter tags is non-empty only the include set decides and exclude_tags
\* is ignored; exclude_tags is applied only when both others are empty.
C22_ModesExclusive ==
    \A p \in Procs :
        Listed(p) =>
            LET q == loc[p].q
                deciding == IF q.advanced # "" THEN [q EXCEPT !.tags = "", !.exclude_tags = ""]
                            ELSE IF q.tags # "" THEN [q EXCEPT !.exclude_tags = ""]
                            ELSE q
            IN loc[p].out = ScanBookmarks(loc[p].a, store, deciding)

\* C22, amended: the same with "non-empty" read on the parsed parameters: the
\* advanced expression is the trimmed parameter, and the include set is the
\* list of the non-blank items of the comma-separated parameter tags.
C22_ModesExclusiveParsed ==
    \A p \in Procs :
        Listed(p) =>
            LET q == loc[p].q
                deciding == IF TrimSpace(q.advanced) # ""
                            THEN [q EXCEPT !.tags = "", !.exclude_tags = ""]
                            ELSE IF QueryTagList(q.tags) # <<>> THEN [q EXCEPT !.exclude_tags = ""]
                            ELSE q
            IN loc[p].out = ScanBookmarks(loc[p].a, store, deciding)

\* an advanced request has returned a bookmark that its include set rejects
\* and one that its exclude set rejects
C22_Witness ==
    \E p \in Procs :
        /\ Listed(p)
        /\ loc[p].q.advanced = "not y" /\ loc[p].q.tags = "x" /\ loc[p].q.exclude_tags = "y"
        /\ \E k \in loc[p].out.ids \cap BookmarkIDs : "x" \notin StoredTags(store, k)

PassesTagFilter(k, q) ==
    LET a == getAliasMap(store)
        norm(T) == IF Len(T) > 0 /\ a.ok THEN normalizeTags(T, a.m) ELSE T
        advanced == TrimSpace(q.advanced)
    IN TagFilter(norm(DecodeBookmark(store[k]).tags),
                 IF advanced # "" /\ a.ok THEN normalizeExpression(advanced, a.m) ELSE advanced,
                 norm(QueryTagList(q.tags)), norm(QueryTagList(q.exclude_tags))) = "true"

\* the entity k passes the keyword matcher on the keywords of the query q
PassesKeywords(k, q) ==
    LET words == Fields(q.keywords)
        tags == normalizeTags(DecodeBookmark(store[k]).tags, AliasMapOf(store))
    IN \A i \in DOMAIN words :
          IF IsExclusionTerm(words[i])
          THEN ~OccursInText(Tail(words[i]), ReqTitle, ReqURL, tags)
          ELSE OccursInText(words[i], ReqTitle, ReqURL, tags)

\* C25: a list request returns an entity iff it passes the tag filter of the
\* active mode and also passes the keyword matcher, in every mode.
C25_KeywordsInEveryMode ==
    \A p \in Procs :
        Listed(p) =>
            \A k \in CreatedEntities(store) :
                k \in loc[p].out.ids <=> (PassesTagFilter(k, loc[p].q) /\ PassesKeywords(k, loc[p].q))

\* an advanced request with keywords has dropped a bookmark that passes its expression
C25_Witness ==
    \E p \in Procs :
        /\ Listed(p)
        /\ loc[p].q.advanced = "not y" /\ loc[p].q.keywords = "-x"
        /\ \E k \in CreatedEntities(store) \ loc[p].out.ids : StoredTags(store, k) = {"x"}

\* C26: a list request with no tag filter and no keywords returns exactly the
\* live entities: every returned item is an entity that was created and not
\* deleted, and no count-map or alias-map record is returned as an entity.
C26_NoFilterListsLive ==
    \A p \in Procs :
        (Listed(p) /\ loc[p].q = NoQuery) => loc[p].out.ids = CreatedEntities(store)

\* C27: a list or tag-list request observes one point-in-time view: its
\* result equals the result computed from the alias map, the bookmarks and the
\* count map as they all were in one state of the store between the start and
\* the end of the request, also when alias or entity mutations run concurrently.
C27_PointInTime ==
    [][\A p \in Procs :
          /\ (pc[p] = "l_done" /\ pc'[p] = "idle") =>
                \E s \in hist[p] : loc[p].out = ScanBookmarks(getAliasMap(s), s, loc[p].q)
          /\ (pc[p] = "t_done" /\ pc'[p] = "idle") =>
                \E s \in hist[p] : loc[p].counts = ReadTagCounts(getAliasMap(s), s)]_vars

-----------------------------------------------------------------------------
\* Properties of the rejected requests

\* the request of handler p is answered with an error in this step: a create
\* or edit without a required field or a delete of a missing key (the handler
\* stays idle), or an edit of a missing key
Rejected(p) ==
    \/ pc[p] = "idle" /\ pc'[p] = "idle" /\ nreq' = nreq + 1
    \/ pc[p] = "e_begin" /\ pc'[p] = "idle"

\* the edit or delete request of handler p has found its record in this step
Accepted(p) == pc[p] \notin {"e_commit", "d_write"} /\ pc'[p] \in {"e_commit", "d_write"}

\* C28: a create or edit request with a missing required field, and an edit
\* or delete request for an id that does not exist, is rejected with an error
\* and changes neither an entity record nor the count map: a rejection leaves
\* the store as it is, and only a request for the id of a live entity is not rejected.
C28_RejectedChangesNothing ==
    [][\A p \in Procs :
          /\ Rejected(p) => store' = store
          /\ Accepted(p) => loc'[p].id \in CreatedEntities(store)]_vars

-----------------------------------------------------------------------------
\* Properties of the rebuild beside a mutation

\* an import has stored its bookmark: it arrived while a create or delete
\* was between its entity write and its index delta
Imported == \E k \in BookmarkIDs : store[k] = BookmarkDoc(<<"y">>)

\* no tag is counted more often than live entities carry it
NotCountedTwice(s) ==
    LET m == PersistedCounts(s).m
    IN \A t \in DOMAIN m : m[t] <= Carriers(s, t)

\* C29: if the rebuild runs while a create, edit or delete is between its
\* committed entity write and its index delta, then after both have completed
\* the persisted count map equals the per-tag count of live entities, and in
\* particular the in-flight mutation is not applied to the counts twice.
C29_RebuildBesideMutation ==
    (AllIdle /\ Imported /\ touched = {}) => NotCountedTwice(store)

-----------------------------------------------------------------------------
\* Properties of the order of the index deltas

\* handler p has committed its entity write and not yet begun its updateTagCounts
DeltaPending(p) == pc[p] = "u_begin" /\ loc[p].op \in {"create", "edit", "delete"}

\* the count record after the pending delta of p and then that of q ran, one after the other
AfterBoth(p, q) ==
    AfterDelta(AfterDelta(store, loc[p].old, loc[p].tags), loc[q].old, loc[q].tags)[CountKey]

\* C30: the count map that results from applying the index deltas of two
\* committed entity mutations does not depend on the order in which the two
\* updateTagCounts transactions commit.
C30_DeltaOrderIrrelevant ==
    \A p \in Procs : \A q \in Procs \ {p} :
        (DeltaPending(p) /\ DeltaPending(q) /\ touched = {}) => AfterBoth(p, q) = AfterBoth(q, p)

-----------------------------------------------------------------------------
\* Properties of the frame of edit and delete

\* handler p commits the entity write of an edit or of a delete in this step
EntityWrite(p) ==
    \/ pc[p] = "e_commit" /\ pc'[p] = "u_begin"
    \/ pc[p] = "d_write" /\ pc'[p] = "u_begin"

\* C31: an edit or delete request, for any id string taken from the request
\* path, writes at most an entity record of its kind with its entity write:
\* the entity write never overwrites or deletes the count-map record or the
\* alias-map record.
C31_EntityWriteFrame ==
    [][\A p \in Procs :
          EntityWrite(p) => \A k \in RecordKeys : store'[k] = store[k]]_vars

-----------------------------------------------------------------------------
\* Properties of the order of the entity write and the index delta

\* handler p commits its entity write in this step and goes on to its index delta
DeltaDue(p) == pc[p] # "u_begin" /\ pc'[p] = "u_begin"

\* the tags of the record stored under the key k of the store s
TagsAt(s, k) == DecodeBookmark(s[k]).tags

\* the arguments handler p will pass to updateTagCounts fit the entity write
\* it commits in this step
DeltaFitsWrite(p) ==
    LET l == loc'[p] IN
    /\ l.op \in {"create", "edit", "delete"}
    /\ l.op = "create" => /\ l.old = <<>>
                          /\ store'[l.id] = BookmarkDoc(l.tags)
    /\ l.op = "delete" => /\ l.tags = <<>>
                          /\ store'[l.id] = NoDoc
    /\ l.op = "edit" => /\ l.old = TagsAt(store, l.id)
                        /\ l.tags = TagsAt(store', l.id)
                        /\ store[l.id] # NoDoc

\* handler p runs the closure of updateTagCounts in this step
DeltaRuns(p) == pc[p] = "u_begin" /\ pc'[p] # "u_begin"

\* C32: for every create, edit or delete request, the index delta is applied
\* only after the entity write of the request has committed, exactly once,
\* with no old tags on create, no new tags on delete, and the previously
\* stored and the newly stored tags on edit; when the entity write fails no
\* delta is applied.
C32_DeltaAfterWriteOnce ==
    [][\A p \in Procs :
          /\ DeltaDue(p) => DeltaFitsWrite(p)
          /\ DeltaRuns(p) =>
                /\ pc'[p] \in {"u_commit", "idle"}
                /\ pc'[p] = "u_commit" =>
                      loc'[p].wval = updateTagCounts(store, loc[p].old, loc[p].tags).doc
          /\ pc[p] = "u_commit" => pc'[p] \in {"u_commit", "idle"}
          /\ (pc[p] = "e_commit" /\ stale[p] /\ pc'[p] # "e_commit") =>
                (pc'[p] = "idle" /\ store' = store)
          /\ pc[p] \in {"e_begin", "idle"} => pc'[p] \notin {"u_begin", "u_commit"}]_vars

\* an edit has replaced the tags of a bookmark by other tags and its delta,
\* with both lists, awaits its commit
C32_Witness ==
    \E p \in Procs :
        /\ pc[p] = "u_commit"
        /\ loc[p].op = "edit"
        /\ loc[p].old # <<>>
        /\ loc[p].tags # <<>>
        /\ loc[p].old # loc[p].tags

-----------------------------------------------------------------------------
\* Properties of a failed index delta

\* the updateTagCounts of handler p fails in this step: its closure returns
\* an error or its commit meets a conflict
DeltaFails(p) ==
    \/ pc[p] = "u_begin" /\ pc'[p] = "idle"
    \/ pc[p] = "u_commit" /\ stale[p] /\ pc'[p] = "idle"

\* C33: if the index delta fails after the entity write has committed, the
\* request still reports success, the entity mutation stays persisted and
\* the count map is left exactly as it was before that delta.
C33_FailedDeltaSwallowed ==
    [][\A p \in Procs : DeltaFails(p) => (loc'[p].resp = "ok" /\ store' = store)]_vars

\* a request has reported success, its bookmark is stored, and the count map
\* lacks a tag of the bookmark: the delta of the request has failed
C33_Witness ==
    /\ AllIdle
    /\ touched = {}
    /\ \A p \in Procs : loc[p].resp = "ok"
    /\ \E k \in BookmarkIDs : \E t \in StoredTags(store, k) :
          t \notin DOMAIN PersistedCounts(store).m

-----------------------------------------------------------------------------
\* Properties of normalizeExpression

\* the tokens toks with every tag that is a key of the alias map m replaced
\* by its canonical value, keywords and parentheses kept
RECURSIVE AliasedTokens(_, _)
AliasedTokens(toks, m) ==
    IF toks = <<>> THEN <<>>
    ELSE <<IF Head(toks) \in {"and", "or", "not", "(", ")"} THEN Head(toks)
           ELSE Target(m, Head(toks))>> \o AliasedTokens(Tail(toks), m)

\* C34: for every expression and every alias map, normalizeExpression
\* replaces exactly the tokens that are alias keys by their canonical value
\* and leaves the keywords and, or, not, the parentheses and all token
\* boundaries unchanged.
C34_OnlyAliasTokensReplaced ==
    fn.phase = "normalized" => fn.out = Render(AliasedTokens(fn.toks, fn.m), fn.style)

-----------------------------------------------------------------------------
\* Properties of the stored tag list

\* the sequence sq holds no element twice
NoDuplicate(sq) == \A i \in DOMAIN sq : \A j \in DOMAIN sq : sq[i] = sq[j] => i = j

\* C35: for every entity kind, the tag list stored by a create or edit
\* request is non-null (the empty list when no tags are given) and holds no
\* duplicate, so a tag repeated within one request contributes 1 to the
\* count of that tag.
C35_StoredTagsAreASet ==
    fn.phase = "stored" =>
        /\ ~fn.out.null
        /\ NoDuplicate(fn.out.list)
        /\ \A t \in DOMAIN fn.counts : fn.counts[t] = 1

-----------------------------------------------------------------------------
\* Properties of the three list pipelines

\* C36: the bookmark, note and video list operations implement the same
\* tag-filter pipeline: given the same stored tags, the same alias map of
\* their kind and the same query parameters, all three make the same
\* pass/reject decision for an entity.
C36_SamePipeline ==
    fn.phase = "filtered" => (fn.bookmark = fn.note /\ fn.note = fn.youtube)

-----------------------------------------------------------------------------
\* Properties of the reserved tag names

\* the evaluated expression, a tag name, is a tag of the bookmark
NameIsTag == fn.expression \in Range(fn.tags)

\* C37: a tag literally named and, or, not, true or false cannot be
\* expressed in an advanced expression: for each such name there is a tag
\* set for which the value of the expression that is the name differs from
\* the membership of the name in the tag set.
C37_ReservedInexpressible ==
    fn.phase = "evaluated" =>
        \E tags \in SeqsUpTo(ReservedNames \cup {"x"}, MaxTagLen) :
            evaluateTagExpression(tags, fn.expression) # Bool(fn.expression \in Range(tags))

\* C37, for the names the code treats specially: the expression and, or or
\* not is false for every bookmark, also for those carrying a tag of that
\* name, while the expression true or false has the value of the membership
\* of a tag of that name.
C37_OperatorsInexpressible ==
    fn.phase = "evaluated" =>
        /\ fn.expression \in {"and", "or", "not"} => fn.result = "false"
        /\ fn.expression \in {"true", "false"} => fn.result = Bool(NameIsTag)

\* the expression and has been evaluated for a bookmark tagged and
C37_Witness ==
    /\ fn.phase = "evaluated"
    /\ fn.expression = "and"
    /\ NameIsTag
    /\ fn.result # Bool(NameIsTag)

-----------------------------------------------------------------------------
\* Properties of the advanced expression that is one tag

\* C38: for every tag T that is not a logical keyword and every set of
\* entities, a list request with advanced=T returns the same entities as a
\* list request with tags=T.
C38_AdvancedTagIsInclude ==
    fn.phase = "asked" => fn.byAdvanced = fn.byTags

-----------------------------------------------------------------------------
\* Properties of the generated identifier

\* handler p commits the entity write of a create in this step
CreateCommits(p) == pc[p] = "c_write" /\ pc'[p] = "u_begin"

\* C39: every successful create request adds exactly one new live entity
\* whose identifier differs from the identifier of every other live entity,
\* also when two create requests run concurrently: a create never overwrites
\* an existing entity.
C39_CreateAddsFreshEntity ==
    [][\A p \in Procs :
          CreateCommits(p) =>
              /\ store[loc[p].id] = NoDoc
              /\ CreatedEntities(store') = CreatedEntities(store) \cup {loc[p].id}]_vars

-----------------------------------------------------------------------------
\* Properties of concurrent alias requests

\* the alias map m after the update that the request with the locals l asks for
RequestedUpdate(l, m) ==
    IF l.op = "set" THEN setAliasGroup(m, l.canonical, l.aliases)
    ELSE IF l.op = "remove" THEN removeAlias(m, l.alias)
    ELSE removeGroup(m, l.canonical)

\* the transaction of the alias request of handler p ends in this step
AliasTxnEnds(p) == pc[p] = "a_commit" /\ pc'[p] = "a_done"

\* C40: for any interleaving of concurrent setAliasGroup, removeAlias and
\* removeGroup requests of one kind, the final alias map is the result of
\* applying, in some serial order, exactly the requests that reported
\* success: every request that reports success applies its update to the
\* alias map as it is stored when the request commits, a request that
\* reports a failure changes nothing, and nothing else changes the map.
C40_AliasUpdatesSerial ==
    [][/\ \A p \in Procs :
             AliasTxnEnds(p) =>
                 IF loc'[p].resp = "ok"
                 THEN store' = [store EXCEPT ![aliasKeyForType(loc[p].type).key] =
                                   AliasDoc(RequestedUpdate(loc[p],
                                                getAliasMapOf(store, loc[p].type).m))]
                 ELSE store' = store
       /\ store' # store => \E p \in Procs : AliasTxnEnds(p) /\ loc'[p].resp = "ok"]_vars

\* two alias requests overlapped: one has committed and reported success, the
\* setAliasGroup of the other met the conflict and reported a failure
C40_Witness ==
    \E p \in Procs : \E q \in Procs \ {p} :
        /\ pc[p] = "a_done" /\ pc[q] = "a_done"
        /\ loc[p].op \in {"set", "remove", "group"} /\ loc[p].resp = "ok"
        /\ loc[q].op = "set" /\ loc[q].type = "bookmark" /\ loc[q].resp = "server_error"
        /\ loc[q].canonical # "" /\ loc[q].aliases # <<>>

====
